---- MODULE Spec2Model ----
(***************************************************************************)
(* The CNOT-dihedral group engine of                                       *)
(* qiskit/ignis/verification/randomized_benchmarking/dihedral.py:          *)
(* SpecialPolynomial (phase polynomials of degree <= 3 over Z_8),          *)
(* CNOTDihedral (polynomial, Z_2 linear part, Z_2 shift), the generators   *)
(* cnot/phase/flip, the composition __mul__/__rmul__, append_circuit and   *)
(* decompose_CNOTDihedral.                                                 *)
(*                                                                         *)
(* Python lists are functions over 0..len-1.  A raised exception is the    *)
(* record [raised |-> kind]; an in-place method returns                    *)
(* [self |-> the object as the call left it, raised |-> kind or "none"].   *)
(***************************************************************************)
EXTENDS Integers, Sequences, FiniteSets, TLC

\* ------------------------------------------------------------------ bounds
\* Variables of a polynomial, qubits of an element.
MaxVars == 3
\* Calls made on one operand of a composition while it is built.
MaxOps == 1

\* ------------------------------------------------------- Python primitives
\* A list with its items computed: TLC keeps [i \in S |-> e] as the
\* expression e, and evaluates it again at every use unless it is made a
\* table of values first, which @@ does.
Items(l) == l @@ <<>>

\* len * [v]
List(len, v) == Items([i \in 0..(len - 1) |-> v])

ListLen(l) == Cardinality(DOMAIN l)

\* int(num / den): the float quotient truncated toward zero (den > 0).
PyInt(num, den) == IF num >= 0 THEN num \div den ELSE -((-num) \div den)

\* l[k] is defined for -len <= k < len; a negative k counts from the end.
PyIndexOk(l, k) == (-ListLen(l) <= k) /\ (k < ListLen(l))

PyIndex(l, k) == IF k < 0 THEN k + ListLen(l) ELSE k

Raise(kind) == [raised |-> kind]

IsRaised(x) == "raised" \in DOMAIN x

SeqToSet(s) == {s[k] : k \in 1..Len(s)}

\* Lexicographic order on index lists of one length.
LexLess(s, t) ==
    \E k \in 1..Len(s) : (\A m \in 1..(k - 1) : s[m] = t[m]) /\ s[k] < t[k]

RECURSIVE SortLex(_)
SortLex(S) ==
    IF S = {} THEN <<>>
    ELSE LET m == CHOOSE s \in S : \A t \in S \ {s} : LexLess(s, t)
         IN  <<m>> \o SortLex(S \ {m})

\* sorted(S) for a set of integers in 0..n-1.
SortedList(S, n) == SelectSeq([k \in 1..n |-> k - 1], LAMBDA v : v \in S)

\* sorted(s) for a list of integers, duplicates kept.
RECURSIVE SortedSeq(_)
SortedSeq(s) ==
    IF Len(s) = 0 THEN <<>>
    ELSE LET p == CHOOSE p \in 1..Len(s) : \A q \in 1..Len(s) : s[p] <= s[q]
         IN  <<s[p]>> \o SortedSeq([k \in 1..(Len(s) - 1) |->
                                        IF k < p THEN s[k] ELSE s[k + 1]])

\* itertools.combinations(s, 2) and (s, 3): by position, in lexicographic order.
Combinations2(s) ==
    LET pos == SortLex({pq \in (1..Len(s)) \X (1..Len(s)) : pq[1] < pq[2]})
    IN  [k \in 1..Len(pos) |-> <<s[pos[k][1]], s[pos[k][2]]>>]

Combinations3(s) ==
    LET pos == SortLex({pqr \in (1..Len(s)) \X (1..Len(s)) \X (1..Len(s)) :
                           pqr[1] < pqr[2] /\ pqr[2] < pqr[3]})
    IN  [k \in 1..Len(pos) |-> <<s[pos[k][1]], s[pos[k][2]], s[pos[k][3]]>>]

\* [j for j, e in enumerate(row) if e != 0]
Support(row) == SortedList({j \in DOMAIN row : row[j] # 0}, ListLen(row))

\* -------------------------------------------------------- SpecialPolynomial
nc2(n_vars) == PyInt(n_vars * (n_vars - 1), 2)

nc3(n_vars) == PyInt(n_vars * (n_vars - 1) * (n_vars - 2), 6)

\* The zero polynomial on n_vars variables.
SpecialPolynomial(n_vars) ==
    [n_vars   |-> n_vars,
     weight_0 |-> 0,
     weight_1 |-> List(n_vars, 0),
     weight_2 |-> List(nc2(n_vars), 0),
     weight_3 |-> List(nc3(n_vars), 0)]

\* terms0 + terms1 + terms2 + terms3, in the order the loops build them.
terms1(n_vars) == SortLex({<<i>> : i \in 0..(n_vars - 1)})

terms2(n_vars) ==
    SortLex({t \in (0..(n_vars - 2)) \X (0..(n_vars - 1)) : t[1] < t[2]})

terms3(n_vars) ==
    SortLex({t \in (0..(n_vars - 3)) \X (0..(n_vars - 2)) \X (0..(n_vars - 1)) :
                t[1] < t[2] /\ t[2] < t[3]})

TermsTable ==
    Items([n_vars \in 1..MaxVars |->
              <<<<>>>> \o terms1(n_vars) \o terms2(n_vars) \o terms3(n_vars)])

AllTerms(n_vars) ==
    IF n_vars \in DOMAIN TermsTable THEN TermsTable[n_vars]
    ELSE <<<<>>>> \o terms1(n_vars) \o terms2(n_vars) \o terms3(n_vars)

\* The three assertions that open get_term, set_term and mul_monomial.
term_check(n_vars, indices) ==
    /\ Len(indices) < 4
    /\ \A k \in 1..Len(indices) : ~(indices[k] < 0 \/ indices[k] >= n_vars)
    /\ \A k \in 1..(Len(indices) - 1) : indices[k] < indices[k + 1]

\* Offset of a quadratic or cubic term in weight_2 / weight_3.
term_offset(n_vars, indices) ==
    IF Len(indices) = 2
    THEN PyInt(2 * indices[1] * n_vars - (indices[1] + 1) * indices[1], 2)
         + (indices[2] - indices[1] - 1)
    ELSE PyInt(indices[1] * (2 + indices[1] * indices[1]
                             - 3 * indices[1] * (n_vars - 1)
                             - 6 * n_vars + 3 * n_vars * n_vars), 6)
         + PyInt((indices[2] - indices[1] - 1)
                 * (2 * n_vars - indices[2] + indices[1] - 2), 2)
         + (indices[3] - indices[2] - 1)

\* What get_term / set_term raise for these indices, or "none".
term_raises(self, indices) ==
    IF ~term_check(self.n_vars, indices) THEN "AssertionError"
    ELSE IF Len(indices) = 2
              /\ ~PyIndexOk(self.weight_2, term_offset(self.n_vars, indices))
         THEN "IndexError"
    ELSE IF Len(indices) = 3
              /\ ~PyIndexOk(self.weight_3, term_offset(self.n_vars, indices))
         THEN "IndexError"
    ELSE "none"

\* The coefficient of a term (term_raises(self, indices) = "none").
get_term(self, indices) ==
    CASE Len(indices) = 0 -> self.weight_0
      [] Len(indices) = 1 -> self.weight_1[indices[1]]
      [] Len(indices) = 2 ->
            self.weight_2[PyIndex(self.weight_2,
                                  term_offset(self.n_vars, indices))]
      [] OTHER ->
            self.weight_3[PyIndex(self.weight_3,
                                  term_offset(self.n_vars, indices))]

\* set_term with the assignment made, the value reduced modulo 8.
set_term_store(self, indices, value) ==
    CASE Len(indices) = 0 -> [self EXCEPT !.weight_0 = value % 8]
      [] Len(indices) = 1 ->
            [self EXCEPT !.weight_1[indices[1]] = value % 8]
      [] Len(indices) = 2 ->
            [self EXCEPT !.weight_2[PyIndex(self.weight_2,
                            term_offset(self.n_vars, indices))] = value % 8]
      [] OTHER ->
            [self EXCEPT !.weight_3[PyIndex(self.weight_3,
                            term_offset(self.n_vars, indices))] = value % 8]

\* In place: the assertions and the index check come before the one store.
set_term(self, indices, value) ==
    IF term_raises(self, indices) # "none"
    THEN [self |-> self, raised |-> term_raises(self, indices)]
    ELSE [self |-> set_term_store(self, indices, value), raised |-> "none"]

\* mul_monomial's loop over terms0 + terms1 + terms2 + terms3 from position k:
\* result[term | indices] += self[term], stopping at the first exception.
RECURSIVE mul_monomial_loop(_, _, _, _, _)
mul_monomial_loop(self, indices, terms, k, result) ==
    IF k > Len(terms) THEN result
    ELSE LET term     == terms[k]
             \* list(set(term).union(set(indices))): CPython iterates a set of
             \* small non-negative integers in increasing order.
             new_term == SortedList(SeqToSet(term) \cup SeqToSet(indices),
                                    self.n_vars)
         IN  IF term_raises(self, term) # "none"
             THEN Raise(term_raises(self, term))
             ELSE IF term_raises(result, new_term) # "none"
             THEN Raise(term_raises(result, new_term))
             ELSE mul_monomial_loop(self, indices, terms, k + 1,
                     set_term_store(result, new_term,
                         (get_term(result, new_term) + get_term(self, term)) % 8))

\* self times the monomial x_{indices}: a new polynomial, or what it raises.
mul_monomial(self, indices) ==
    IF ~term_check(self.n_vars, indices) THEN Raise("AssertionError")
    ELSE IF Len(indices) = 0 THEN self
    ELSE mul_monomial_loop(self, indices, AllTerms(self.n_vars), 1,
                           SpecialPolynomial(self.n_vars))

\* __mul__ with an int, the products stored as they are.
SpecialPolynomial_mul_int_unreduced(self, other) ==
    [n_vars   |-> self.n_vars,
     weight_0 |-> self.weight_0 * other,
     weight_1 |-> Items([i \in DOMAIN self.weight_1 |-> self.weight_1[i] * other]),
     weight_2 |-> Items([i \in DOMAIN self.weight_2 |-> self.weight_2[i] * other]),
     weight_3 |-> Items([i \in DOMAIN self.weight_3 |-> self.weight_3[i] * other])]

\* __mul__ with an int: every coefficient times other, modulo 8.
SpecialPolynomial_mul_int(self, other) ==
    [n_vars   |-> self.n_vars,
     weight_0 |-> (self.weight_0 * other) % 8,
     weight_1 |-> Items([i \in DOMAIN self.weight_1 |->
                            (self.weight_1[i] * other) % 8]),
     weight_2 |-> Items([i \in DOMAIN self.weight_2 |->
                            (self.weight_2[i] * other) % 8]),
     weight_3 |-> Items([i \in DOMAIN self.weight_3 |->
                            (self.weight_3[i] * other) % 8])]

\* zip(x, y) stops at the shorter list.
ZipAdd(x, y, modulus) ==
    Items([i \in 0..((IF ListLen(x) < ListLen(y) THEN ListLen(x)
                                                 ELSE ListLen(y)) - 1)
              |-> (x[i] + y[i]) % modulus])

\* __add__: the term-wise sum modulo 8.
SpecialPolynomial_add(self, other) ==
    IF self.n_vars # other.n_vars THEN Raise("AssertionError")
    ELSE [n_vars   |-> self.n_vars,
          weight_0 |-> (self.weight_0 + other.weight_0) % 8,
          weight_1 |-> ZipAdd(self.weight_1, other.weight_1, 8),
          weight_2 |-> ZipAdd(self.weight_2, other.weight_2, 8),
          weight_3 |-> ZipAdd(self.weight_3, other.weight_3, 8)]

\* __mul__'s loop over the terms of other from position k.
RECURSIVE SpecialPolynomial_mul_loop(_, _, _, _, _)
SpecialPolynomial_mul_loop(self, other, terms, k, result) ==
    IF k > Len(terms) THEN result
    ELSE IF term_raises(other, terms[k]) # "none"
    THEN Raise(term_raises(other, terms[k]))
    ELSE LET value == get_term(other, terms[k])
             temp  == mul_monomial(self, terms[k])
         IN  IF value = 0
             THEN SpecialPolynomial_mul_loop(self, other, terms, k + 1, result)
             ELSE IF IsRaised(temp) THEN temp
             ELSE SpecialPolynomial_mul_loop(self, other, terms, k + 1,
                     SpecialPolynomial_add(result,
                         SpecialPolynomial_mul_int(temp, value)))

\* __mul__ with a polynomial: the sum over other's terms of
\* value * self.mul_monomial(term).
SpecialPolynomial_mul(self, other) ==
    IF self.n_vars # other.n_vars THEN Raise("AssertionError")
    ELSE SpecialPolynomial_mul_loop(self, other, AllTerms(self.n_vars), 1,
                                    SpecialPolynomial(self.n_vars))

\* reduce(mul, [xval[j] for j in term], start) from position k of term.
RECURSIVE reduce_mul(_, _, _, _)
reduce_mul(xval, term, k, acc) ==
    IF IsRaised(acc) \/ k > Len(term) THEN acc
    ELSE reduce_mul(xval, term, k + 1,
                    SpecialPolynomial_mul(acc, xval[term[k]]))

\* evaluate's loop for polynomial arguments from position k.
RECURSIVE evaluate_loop(_, _, _, _, _)
evaluate_loop(self, xval, terms, k, result) ==
    IF k > Len(terms) THEN result
    ELSE IF term_raises(self, terms[k]) # "none"
    THEN Raise(term_raises(self, terms[k]))
    ELSE LET value   == get_term(self, terms[k])
             start   == [SpecialPolynomial(self.n_vars) EXCEPT !.weight_0 = 1]
             newterm == reduce_mul(xval, terms[k], 1, start)
         IN  IF value = 0
             THEN evaluate_loop(self, xval, terms, k + 1, result)
             ELSE IF IsRaised(newterm) THEN newterm
             ELSE evaluate_loop(self, xval, terms, k + 1,
                     SpecialPolynomial_add(result,
                         SpecialPolynomial_mul_int(newterm, value)))

\* evaluate at a list of polynomials: a new polynomial, or what it raises.
evaluate(self, xval) ==
    IF ListLen(xval) # self.n_vars THEN Raise("AssertionError")
    ELSE IF \E i \in DOMAIN xval : xval[i].n_vars # self.n_vars
    THEN Raise("AssertionError")
    ELSE evaluate_loop(self, xval, AllTerms(self.n_vars), 1,
                       SpecialPolynomial(self.n_vars))

\* evaluate's loop for integer arguments (already reduced modulo 2).
RECURSIVE evaluate_int_loop(_, _, _, _, _)
evaluate_int_loop(self, xval, terms, k, result) ==
    IF k > Len(terms) THEN [value |-> result % 8]
    ELSE IF term_raises(self, terms[k]) # "none"
    THEN Raise(term_raises(self, terms[k]))
    ELSE LET value == get_term(self, terms[k])
             term  == terms[k]
             newterm == IF \A m \in 1..Len(term) : xval[term[m]] = 1
                        THEN 1 ELSE 0
         IN  evaluate_int_loop(self, xval, terms, k + 1,
                 IF value = 0 THEN result ELSE result + value * newterm)

\* evaluate at a list of integers: [value |-> an element of Z_8], or what it
\* raises.
evaluate_int(self, xval) ==
    IF ListLen(xval) # self.n_vars THEN Raise("AssertionError")
    ELSE evaluate_int_loop(self, [i \in DOMAIN xval |-> xval[i] % 2],
                           AllTerms(self.n_vars), 1, 0)

\* set_pj's three loops of set_term, as one list of (indices, value) stores.
RECURSIVE set_terms(_, _, _)
set_terms(self, stores, k) ==
    IF k > Len(stores) THEN [self |-> self, raised |-> "none"]
    ELSE LET r == set_term(self, stores[k][1], stores[k][2])
         IN  IF r.raised # "none" THEN r
             ELSE set_terms(r.self, stores, k + 1)

\* In place: p_J(x) = sum over non-empty a in J of (-2)^(|a|-1) x^a.  The
\* bounds assertion comes first; the weights are then reset and the terms set
\* one by one.
set_pj(self, indices) ==
    IF \E k \in 1..Len(indices) : indices[k] < 0 \/ indices[k] >= self.n_vars
    THEN [self |-> self, raised |-> "AssertionError"]
    ELSE LET sorted    == SortedSeq(indices)
             subsets_2 == Combinations2(sorted)
             subsets_3 == Combinations3(sorted)
             reset     == [self EXCEPT !.weight_0 = 0,
                                       !.weight_1 = List(self.n_vars, 0),
                                       !.weight_2 = List(nc2(self.n_vars), 0),
                                       !.weight_3 = List(nc3(self.n_vars), 0)]
         IN  set_terms(reset,
                 [k \in 1..Len(sorted) |-> <<(<<sorted[k]>>), 1>>]
                 \o [k \in 1..Len(subsets_2) |-> <<subsets_2[k], 6>>]
                 \o [k \in 1..Len(subsets_3) |-> <<subsets_3[k], 4>>],
                 1)

\* (weight_0, tuple(weight_1), tuple(weight_2), tuple(weight_3)) as text.
SpecialPolynomial_key(self) ==
    <<self.weight_0, self.weight_1, self.weight_2, self.weight_3>>

\* ------------------------------------------------------------- CNOTDihedral
\* The identity element on num_qubits qubits.
CNOTDihedral(num_qubits) ==
    [num_qubits |-> num_qubits,
     poly       |-> SpecialPolynomial(num_qubits),
     linear     |-> Items([r \in 0..(num_qubits - 1) |->
                        Items([c \in 0..(num_qubits - 1) |->
                                  IF r = c THEN 1 ELSE 0])]),
     shift      |-> List(num_qubits, 0)]

\* prod[i][j] accumulated over k, modulo 2 at every step.
RECURSIVE z2dot(_, _, _, _)
z2dot(n, f, k, acc) ==
    IF k >= n THEN acc ELSE z2dot(n, f, k + 1, (acc + f[k]) % 2)

\* _z2matmul with the sums of products kept as integers.
_z2matmul_unreduced(self, left, right) ==
    Items([i \in 0..(self.num_qubits - 1) |->
        Items([j \in 0..(self.num_qubits - 1) |->
            Cardinality({k \in 0..(self.num_qubits - 1) :
                            left[i][k] * right[k][j] = 1})])])

_z2matmul(self, left, right) ==
    Items([i \in 0..(self.num_qubits - 1) |->
        Items([j \in 0..(self.num_qubits - 1) |->
            z2dot(self.num_qubits,
                  [k \in 0..(self.num_qubits - 1) |-> left[i][k] * right[k][j]],
                  0, 0)])])

\* _z2matvecmul with the matrix read by columns.
_z2matvecmul_transposed(self, mat, vec) ==
    Items([i \in 0..(self.num_qubits - 1) |->
        z2dot(self.num_qubits,
              [j \in 0..(self.num_qubits - 1) |-> mat[j][i] * vec[j]], 0, 0)])

_z2matvecmul(self, mat, vec) ==
    Items([i \in 0..(self.num_qubits - 1) |->
        z2dot(self.num_qubits,
              [j \in 0..(self.num_qubits - 1) |-> mat[i][j] * vec[j]], 0, 0)])

\* One substituted variable of a composition: p_J on the support of a row,
\* and, where the flag is 1, -1 * poly with 1 added to its constant term.
new_var(num_qubits, row, flag) ==
    LET pj == set_pj(SpecialPolynomial(num_qubits), Support(row))
        neg == SpecialPolynomial_mul_int(pj.self, -1)
    IN  IF pj.raised # "none" THEN Raise(pj.raised)
        ELSE IF flag = 1
        THEN [neg EXCEPT !.weight_0 = (neg.weight_0 + 1) % 8]
        ELSE pj.self

\* The sum with the operands exchanged: second + first.evaluate(new_vars).
compose_poly_swapped(first, second, new_vars) ==
    IF \E i \in DOMAIN new_vars : IsRaised(new_vars[i])
    THEN Raise((CHOOSE v \in {new_vars[i] : i \in DOMAIN new_vars} :
                    IsRaised(v)).raised)
    ELSE LET ev == evaluate(first, new_vars)
         IN  IF IsRaised(ev) THEN ev ELSE SpecialPolynomial_add(second, ev)

\* result.poly = first + second.evaluate(new_vars), or what it raises.
compose_poly(first, second, new_vars) ==
    IF \E i \in DOMAIN new_vars : IsRaised(new_vars[i])
    THEN Raise((CHOOSE v \in {new_vars[i] : i \in DOMAIN new_vars} :
                    IsRaised(v)).raised)
    ELSE LET ev == evaluate(second, new_vars)
         IN  IF IsRaised(ev) THEN ev ELSE SpecialPolynomial_add(first, ev)

\* __mul__ with the supports taken from the rows of self.linear.
CNOTDihedral_mul_self_rows(self, other) ==
    IF self.num_qubits # other.num_qubits THEN Raise("AssertionError")
    ELSE LET n        == self.num_qubits
             new_vars == Items([i \in 0..(n - 1) |->
                             new_var(n, self.linear[i], other.shift[i])])
             poly     == compose_poly(other.poly, self.poly, new_vars)
         IN  IF IsRaised(poly) THEN poly
             ELSE [num_qubits |-> n,
                   poly       |-> poly,
                   linear     |-> _z2matmul(self, self.linear, other.linear),
                   shift      |-> ZipAdd(_z2matvecmul(self, self.linear,
                                                      other.shift),
                                         self.shift, 2)]

\* __mul__: left multiplication self * other; a new element, or what it
\* raises.
CNOTDihedral_mul(self, other) ==
    IF self.num_qubits # other.num_qubits THEN Raise("AssertionError")
    ELSE LET n        == self.num_qubits
             new_vars == Items([i \in 0..(n - 1) |->
                             new_var(n, other.linear[i], other.shift[i])])
             poly     == compose_poly(other.poly, self.poly, new_vars)
         IN  IF IsRaised(poly) THEN poly
             ELSE [num_qubits |-> n,
                   poly       |-> poly,
                   linear     |-> _z2matmul(self, self.linear, other.linear),
                   shift      |-> ZipAdd(_z2matvecmul(self, self.linear,
                                                      other.shift),
                                         self.shift, 2)]

\* __rmul__ answering as __mul__ does.
CNOTDihedral_rmul_as_mul(self, other) == CNOTDihedral_mul(self, other)

\* __rmul__: right multiplication other * self.
CNOTDihedral_rmul(self, other) ==
    IF self.num_qubits # other.num_qubits THEN Raise("AssertionError")
    ELSE LET n        == self.num_qubits
             new_vars == Items([i \in 0..(n - 1) |->
                             new_var(n, self.linear[i], other.shift[i])])
             poly     == compose_poly(self.poly, other.poly, new_vars)
         IN  IF IsRaised(poly) THEN poly
             ELSE [num_qubits |-> n,
                   poly       |-> poly,
                   linear     |-> _z2matmul(self, other.linear, self.linear),
                   shift      |-> ZipAdd(_z2matvecmul(self, other.linear,
                                                      self.shift),
                                         other.shift, 2)]

\* (poly.key, tuple(map(tuple, linear)), tuple(shift)) as text.
CNOTDihedral_key(self) ==
    <<SpecialPolynomial_key(self.poly), self.linear, self.shift>>

\* cnot with the sum stored in the row and the entry of the control qubit.
cnot_control_row(self, i, j) ==
    IF i < 0 \/ j < 0 \/ i >= self.num_qubits \/ j >= self.num_qubits \/ i = j
    THEN [self |-> self, raised |-> "AssertionError"]
    ELSE [self |->
            [self EXCEPT
               !.linear[i] = Items([k \in 0..(self.num_qubits - 1) |->
                                 (self.linear[i][k] + self.linear[j][k]) % 2]),
               !.shift[i]  = (self.shift[i] + self.shift[j]) % 2],
          raised |-> "none"]

\* In place: left multiply by CNOT_{i,j}.
cnot(self, i, j) ==
    IF i < 0 \/ j < 0 \/ i >= self.num_qubits \/ j >= self.num_qubits \/ i = j
    THEN [self |-> self, raised |-> "AssertionError"]
    ELSE [self |->
            [self EXCEPT
               !.linear[j] = Items([k \in 0..(self.num_qubits - 1) |->
                                 (self.linear[i][k] + self.linear[j][k]) % 2]),
               !.shift[j]  = (self.shift[i] + self.shift[j]) % 2],
          raised |-> "none"]

\* phase's three loops, as one list of (indices, increment): each step reads
\* the term and stores it back increased, stopping at the first exception.
RECURSIVE add_terms(_, _, _)
add_terms(poly, adds, k) ==
    IF k > Len(adds) THEN [self |-> poly, raised |-> "none"]
    ELSE IF term_raises(poly, adds[k][1]) # "none"
    THEN [self |-> poly, raised |-> term_raises(poly, adds[k][1])]
    ELSE add_terms(set_term_store(poly, adds[k][1],
                       (get_term(poly, adds[k][1]) + adds[k][2]) % 8),
                   adds, k + 1)

\* The power taken as 7 - k, not 7 * k, where the qubit is flipped.
phase_power_complement(self, k, i) ==
    IF self.shift[i] = 1 THEN (7 - k) % 8 ELSE k

\* The power phase works with: conjugated where the qubit is flipped.
phase_power(self, k, i) == IF self.shift[i] = 1 THEN (7 * k) % 8 ELSE k

\* In place: left multiply by T_i^k.
phase(self, k, i) ==
    IF i < 0 \/ i >= self.num_qubits
    THEN [self |-> self, raised |-> "AssertionError"]
    ELSE LET kk        == phase_power(self, k, i)
             support   == Support(self.linear[i])
             subsets_2 == Combinations2(support)
             subsets_3 == Combinations3(support)
             r == add_terms(self.poly,
                     [m \in 1..Len(support) |-> <<(<<support[m]>>), kk>>]
                     \o [m \in 1..Len(subsets_2) |-> <<subsets_2[m], -2 * kk>>]
                     \o [m \in 1..Len(subsets_3) |-> <<subsets_3[m], 4 * kk>>],
                     1)
         IN  [self |-> [self EXCEPT !.poly = r.self], raised |-> r.raised]

\* In place: left multiply by X_i.
flip(self, i) ==
    IF i < 0 \/ i >= self.num_qubits
    THEN [self |-> self, raised |-> "AssertionError"]
    ELSE [self |-> [self EXCEPT !.shift[i] = (self.shift[i] + 1) % 2],
          raised |-> "none"]

\* ------------------------------------------------------------------ circuits
\* np.pi, with angles measured in units of pi/8: the angles the code builds
\* are multiples of pi/8 (x * np.pi / 4 with 2 * x an integer), and for those
\* the float products and quotients by np.pi are exact up to the truncation
\* that int() makes.
PI == 8

\* One instruction of a QuantumCircuit: a name, one parameter, its qubits.
Instr(name, param, qubits) == [name |-> name, param |-> param, qubits |-> qubits]

\* circuit.u1(x * np.pi / 4, q), with twice_x = 2 * x.
u1_gate(twice_x, q) == Instr("u1", PyInt(twice_x * PI, 8), <<q>>)

x_gate(q) == Instr("x", 0, <<q>>)

cx_gate(c, t) == Instr("cx", 0, <<c, t>>)

id_gate(q) == Instr("id", 0, <<q>>)

\* A Python list given by its items.
PyList(items) == Items([i \in 0..(Len(items) - 1) |-> items[i + 1]])

\* One instruction of append_circuit's loop, on the element in place.
append_instr(elem, instr, qargs) ==
    IF \E k \in 1..Len(instr.qubits) : ~PyIndexOk(qargs, instr.qubits[k])
    THEN [self |-> elem, raised |-> "IndexError"]
    ELSE LET new_qubits == [k \in 1..Len(instr.qubits) |->
                               qargs[PyIndex(qargs, instr.qubits[k])]]
         IN  CASE instr.name = "x"  -> flip(elem, new_qubits[1])
               [] instr.name = "u1" ->
                     phase(elem, PyInt(4 * instr.param, PI), new_qubits[1])
               [] instr.name = "cx" -> cnot(elem, new_qubits[1], new_qubits[2])
               [] instr.name = "id" -> [self |-> elem, raised |-> "none"]
               [] OTHER -> [self |-> elem, raised |-> "QiskitError"]

\* The loop of append_circuit from instruction k: the first exception ends it
\* and leaves the element as the earlier instructions made it.
RECURSIVE append_loop(_, _, _, _)
append_loop(elem, circuit, qargs, k) ==
    IF k > Len(circuit) THEN [self |-> elem, raised |-> "none"]
    ELSE LET r == append_instr(elem, circuit[k], qargs)
         IN  IF r.raised # "none" THEN r
             ELSE append_loop(r.self, circuit, qargs, k + 1)

\* In place: apply the circuit's instructions to the element, in order.
append_circuit(elem, circuit, qargs) == append_loop(elem, circuit, qargs, 1)

\* qargs = None
default_qargs(elem) == Items([q \in 0..(elem.num_qubits - 1) |-> q])

\* The phase and flip gates every 2-qubit class starts with (twice_l0 and
\* twice_l1 are 2 * l0 and 2 * l1).
local_gates(twice_l0, k0, twice_l1, k1) ==
    (IF twice_l0 > 0 THEN <<u1_gate(twice_l0, 0)>> ELSE <<>>)
    \o (IF k0 = 1 THEN <<x_gate(0)>> ELSE <<>>)
    \o (IF twice_l1 > 0 THEN <<u1_gate(twice_l1, 1)>> ELSE <<>>)
    \o (IF k1 = 1 THEN <<x_gate(1)>> ELSE <<>>)

\* 1 qubit.
decompose_1(elem) ==
    LET l0 == elem.poly.weight_1[0]
        k0 == elem.shift[0]
    IN  (IF l0 > 0 THEN <<u1_gate(2 * l0, 0)>> ELSE <<>>)
        \o (IF k0 = 1 THEN <<x_gate(0)>> ELSE <<>>)
        \o (IF l0 = 0 /\ k0 = 0 THEN <<id_gate(0)>> ELSE <<>>)

\* Dihedral class.
class_dihedral(elem) ==
    LET k0 == elem.shift[0]
        k1 == elem.shift[1]
        l0 == elem.poly.weight_1[0]
        l1 == elem.poly.weight_1[1]
    IN  IF elem.poly.weight_2 = PyList(<<0>>)
        THEN local_gates(2 * l0, k0, 2 * l1, k1)
             \o (IF l0 = 0 /\ l1 = 0 /\ k0 = 0 /\ k1 = 0
                 THEN <<id_gate(0), id_gate(1)>> ELSE <<>>)
        ELSE <<>>

\* CS-like class.
class_cs(elem) ==
    LET k0 == elem.shift[0]
        k1 == elem.shift[1]
        weight_1 == elem.poly.weight_1
        weight_2 == elem.poly.weight_2
        l0 == (weight_1[0] - 2 * k1 - 4 * k0 * k1) % 8
        l1 == (weight_1[1] - 2 * k0 - 4 * k0 * k1) % 8
    IN  IF (weight_2 = PyList(<<2>>) /\ k0 = k1)
           \/ (weight_2 = PyList(<<6>>) /\ k0 # k1)
        THEN local_gates(2 * l0, k0, 2 * l1, k1)
             \o <<u1_gate(2, 0), u1_gate(2, 1), cx_gate(0, 1), u1_gate(14, 1), cx_gate(0, 1)>>
        ELSE <<>>

\* CSdg-like class taken whenever the quadratic coefficient is 2 or 6,
\* whatever the shift is.
class_csdg_any_shift(elem) ==
    LET k0 == elem.shift[0]
        k1 == elem.shift[1]
        weight_1 == elem.poly.weight_1
        weight_2 == elem.poly.weight_2
        l0 == (weight_1[0] - 6 * k1 - 4 * k0 * k1) % 8
        l1 == (weight_1[1] - 6 * k0 - 4 * k0 * k1) % 8
    IN  IF weight_2 = PyList(<<6>>) \/ weight_2 = PyList(<<2>>)
        THEN local_gates(2 * l0, k0, 2 * l1, k1)
             \o <<u1_gate(14, 0), u1_gate(14, 1), cx_gate(0, 1), u1_gate(2, 1), cx_gate(0, 1)>>
        ELSE <<>>

\* CSdg-like class.
class_csdg(elem) ==
    LET k0 == elem.shift[0]
        k1 == elem.shift[1]
        weight_1 == elem.poly.weight_1
        weight_2 == elem.poly.weight_2
        l0 == (weight_1[0] - 6 * k1 - 4 * k0 * k1) % 8
        l1 == (weight_1[1] - 6 * k0 - 4 * k0 * k1) % 8
    IN  IF (weight_2 = PyList(<<6>>) /\ k0 = k1)
           \/ (weight_2 = PyList(<<2>>) /\ k0 # k1)
        THEN local_gates(2 * l0, k0, 2 * l1, k1)
             \o <<u1_gate(14, 0), u1_gate(14, 1), cx_gate(0, 1), u1_gate(2, 1), cx_gate(0, 1)>>
        ELSE <<>>

\* CZ-like class.
class_cz(elem) ==
    LET k0 == elem.shift[0]
        k1 == elem.shift[1]
        weight_1 == elem.poly.weight_1
        l0 == (weight_1[0] - 4 * k1) % 8
        l1 == (weight_1[1] - 4 * k0) % 8
    IN  IF elem.poly.weight_2 = PyList(<<4>>)
        THEN local_gates(2 * l0, k0, 2 * l1, k1)
             \o <<u1_gate(14, 1), u1_gate(14, 0), cx_gate(1, 0), u1_gate(4, 0), cx_gate(1, 0),
                  u1_gate(14, 1), u1_gate(14, 0)>>
        ELSE <<>>

\* CS subgroup: the four classes of the identity linear part.
class_identity(elem) ==
    IF elem.linear = PyList(<<PyList(<<1, 0>>), PyList(<<0, 1>>)>>)
    THEN class_dihedral(elem) \o class_cs(elem) \o class_csdg(elem)
         \o class_cz(elem)
    ELSE <<>>

\* The gates before the CNOTs with m and the corrections of l0 and l1 taken
\* as for k0 = k1 whatever the shift is.
cx_prefix_one_case(elem, k0, k1) ==
    LET weight_1 == elem.poly.weight_1
        weight_2 == elem.poly.weight_2
        twice_m  == (8 - weight_2[0]) % 8
        twice_l0 == (2 * weight_1[0] - twice_m) % 16
        twice_l1 == (2 * weight_1[1] - twice_m) % 16
    IN  [twice_m |-> twice_m,
         gates   |-> local_gates(twice_l0, k0, twice_l1, k1)]

\* The gates before the CNOTs of an off-diagonal class: m, l0 and l1 from the
\* quadratic coefficient and k0, k1 (twice_m is 2 * m: m is a float).
cx_prefix(elem, k0, k1) ==
    LET weight_1 == elem.poly.weight_1
        weight_2 == elem.poly.weight_2
        twice_m  == IF k0 = k1 THEN (8 - weight_2[0]) % 8 ELSE weight_2[0] % 8
        twice_l0 == IF k0 = k1 THEN (2 * weight_1[0] - twice_m) % 16
                               ELSE (2 * weight_1[0] + twice_m) % 16
        twice_l1 == IF k0 = k1 THEN (2 * weight_1[1] - twice_m) % 16
                               ELSE (2 * weight_1[1] + twice_m) % 16
    IN  [twice_m |-> twice_m,
         gates   |-> local_gates(twice_l0, k0, twice_l1, k1)]

\* CX01-like class with the CNOT made of three: the same element, not the
\* fewest CNOTs.
class_cx01_three_cnots(elem) ==
    LET k0 == elem.shift[0]
        k1 == (elem.shift[1] + k0) % 2
        p  == cx_prefix(elem, k0, k1)
    IN  IF elem.linear = PyList(<<PyList(<<1, 0>>), PyList(<<1, 1>>)>>)
        THEN p.gates \o <<cx_gate(0, 1), cx_gate(0, 1), cx_gate(0, 1)>>
             \o (IF p.twice_m > 0 THEN <<u1_gate(p.twice_m, 1)>> ELSE <<>>)
        ELSE <<>>

\* CX01-like class.
class_cx01(elem) ==
    LET k0 == elem.shift[0]
        k1 == (elem.shift[1] + k0) % 2
        p  == cx_prefix(elem, k0, k1)
    IN  IF elem.linear = PyList(<<PyList(<<1, 0>>), PyList(<<1, 1>>)>>)
        THEN p.gates \o <<cx_gate(0, 1)>>
             \o (IF p.twice_m > 0 THEN <<u1_gate(p.twice_m, 1)>> ELSE <<>>)
        ELSE <<>>

\* CX10-like class.
class_cx10(elem) ==
    LET k1 == elem.shift[1]
        k0 == (elem.shift[0] + k1) % 2
        p  == cx_prefix(elem, k0, k1)
    IN  IF elem.linear = PyList(<<PyList(<<1, 1>>), PyList(<<0, 1>>)>>)
        THEN p.gates \o <<cx_gate(1, 0)>>
             \o (IF p.twice_m > 0 THEN <<u1_gate(p.twice_m, 0)>> ELSE <<>>)
        ELSE <<>>

\* CX01*CX10-like class.
class_cx01_cx10(elem) ==
    LET k1 == elem.shift[0]
        k0 == (elem.shift[1] + k1) % 2
        p  == cx_prefix(elem, k0, k1)
    IN  IF elem.linear = PyList(<<PyList(<<0, 1>>), PyList(<<1, 1>>)>>)
        THEN p.gates \o <<cx_gate(0, 1), cx_gate(1, 0)>>
             \o (IF p.twice_m > 0 THEN <<u1_gate(p.twice_m, 1)>> ELSE <<>>)
        ELSE <<>>

\* CX10*CX01-like class.
class_cx10_cx01(elem) ==
    LET k0 == elem.shift[1]
        k1 == (elem.shift[0] + k0) % 2
        p  == cx_prefix(elem, k0, k1)
    IN  IF elem.linear = PyList(<<PyList(<<1, 1>>), PyList(<<1, 0>>)>>)
        THEN p.gates \o <<cx_gate(1, 0), cx_gate(0, 1)>>
             \o (IF p.twice_m > 0 THEN <<u1_gate(p.twice_m, 0)>> ELSE <<>>)
        ELSE <<>>

\* CX01*CX10*CX01-like class.
class_swap(elem) ==
    LET k0 == elem.shift[1]
        k1 == elem.shift[0]
        p  == cx_prefix(elem, k0, k1)
    IN  IF elem.linear = PyList(<<PyList(<<0, 1>>), PyList(<<1, 0>>)>>)
        THEN p.gates \o <<cx_gate(0, 1), cx_gate(1, 0)>>
             \o (IF p.twice_m > 0 THEN <<u1_gate(p.twice_m, 1)>> ELSE <<>>)
             \o <<cx_gate(0, 1)>>
        ELSE <<>>

\* The circuit of a 1- or 2-qubit element, or what the call raises.
decompose_CNOTDihedral(elem) ==
    IF ~(elem.num_qubits < 3)
    THEN [circuit |-> <<>>, raised |-> "AssertionError"]
    ELSE IF elem.poly.weight_0 # 0
    THEN [circuit |-> <<>>, raised |-> "AssertionError"]
    ELSE IF elem.num_qubits = 1
    THEN IF elem.linear # PyList(<<PyList(<<1>>)>>)
         THEN [circuit |-> <<>>, raised |-> "AssertionError"]
         ELSE [circuit |-> decompose_1(elem), raised |-> "none"]
    ELSE [circuit |-> class_identity(elem) \o class_cx01(elem)
                      \o class_cx10(elem) \o class_cx01_cx10(elem)
                      \o class_cx10_cx01(elem) \o class_swap(elem),
          raised  |-> "none"]

\* --------------------------------------------------------------- the state
\* The program state is a Python heap.  An element owns three mutable objects
\* (its SpecialPolynomial with the weight lists, its linear list and its shift
\* list); heap holds each kind by object id, and a variable of the test
\* programs (elem1, elem2, value) is bound to a reference: the element's qubit
\* count and the ids of its three objects.
VARIABLES
    num_qubits,  \* the qubit count of the run
    heap,        \* [poly, linear, shift]: object id -> the object's value
    refs,        \* [elem1, elem2, value]: the references the variables hold
    circ,        \* the circuit decompose_CNOTDihedral returned last
    pc,          \* the position of the test program
    nops,        \* [elem1, elem2]: generator calls made on each so far
    raised,      \* what the last call raised, or "none"
    dicts,       \* the enumeration's dictionaries made so far, by layer
    obj,         \* the dictionary make_dict_0 or make_dict_next is filling
    lists,       \* object id -> the operation list (circ) of a dictionary entry
    pos          \* the iteration the enumeration's outer loop is at

\* The variables of the enumeration.
enum_vars == <<dicts, obj, lists, pos>>

vars == <<num_qubits, heap, refs, circ, pc, nops, raised, enum_vars>>

\* The element a reference denotes.
Deref(h, ref) ==
    [num_qubits |-> ref.num_qubits,
     poly       |-> h.poly[ref.poly],
     linear     |-> h.linear[ref.linear],
     shift      |-> h.shift[ref.shift]]

\* The heap after the element a reference denotes became elem.
Store(h, ref, elem) ==
    [poly   |-> [h.poly   EXCEPT ![ref.poly]   = elem.poly],
     linear |-> [h.linear EXCEPT ![ref.linear] = elem.linear],
     shift  |-> [h.shift  EXCEPT ![ref.shift]  = elem.shift]]

\* A reference to three objects made for one variable; the objects of an
\* element that nothing refers to any more are reclaimed, so a variable's new
\* element takes the ids its old one had.
NewRef(n, id) ==
    [num_qubits |-> n, poly |-> id, linear |-> id, shift |-> id]

Elem1 == Deref(heap, refs.elem1)

Elem2 == Deref(heap, refs.elem2)

Value == Deref(heap, refs.value)

\* elem1 = CNOTDihedral(n); elem2 = CNOTDihedral(n); value = CNOTDihedral(n)
InitHeap(n) ==
    /\ num_qubits = n
    /\ refs = [elem1 |-> NewRef(n, 1), elem2 |-> NewRef(n, 2),
               value |-> NewRef(n, 3)]
    /\ heap = [poly   |-> [i \in 1..3 |-> CNOTDihedral(n).poly],
               linear |-> [i \in 1..3 |-> CNOTDihedral(n).linear],
               shift  |-> [i \in 1..3 |-> CNOTDihedral(n).shift]]
    /\ circ = <<>>
    /\ pc = "build"
    /\ nops = [elem1 |-> 0, elem2 |-> 0]
    /\ raised = "none"
    /\ dicts = <<>>
    /\ obj = [entries |-> <<>>, keys |-> {}]
    /\ lists = <<>>
    /\ pos = 0

\* An in-place call on the element of variable name: the heap takes what the
\* call left, and raised what it raised.
CallInPlace(name, result) ==
    /\ heap' = Store(heap, refs[name], result.self)
    /\ raised' = result.raised

\* The powers phase is called with.
PhasePowers == {-1, 1, 3, 10}

\* Qubit arguments: the element's qubits, and one below and one above them.
QubitArgs == -1..num_qubits

\* Circuits handed to append_circuit: gates of the group, and circuits with
\* an instruction that is none of x, u1, cx, id.
Circuits ==
    {<<u1_gate(6, 0), x_gate(0)>>,
     <<x_gate(0), Instr("h", 0, <<0>>)>>,
     <<id_gate(0), u1_gate(2, 0), Instr("h", 0, <<0>>), x_gate(0)>>}
    \cup (IF num_qubits >= 2
          THEN {<<cx_gate(0, 1), u1_gate(2, 1), x_gate(0)>>,
                <<cx_gate(1, 0), Instr("swap", 0, <<0, 1>>)>>}
          ELSE {})

\* --------------------------------------- round trip of one element (Spec)
Init == \E n \in {1, 2} : InitHeap(n)

\* elem1.cnot(i, j)
Cnot(i, j) ==
    /\ pc = "build"
    /\ CallInPlace("elem1", cnot(Elem1, i, j))
    /\ UNCHANGED <<enum_vars, num_qubits, refs, circ, pc, nops>>

\* elem1.phase(k, i)
Phase(k, i) ==
    /\ pc = "build"
    /\ CallInPlace("elem1", phase(Elem1, k, i))
    /\ UNCHANGED <<enum_vars, num_qubits, refs, circ, pc, nops>>

\* elem1.flip(i)
Flip(i) ==
    /\ pc = "build"
    /\ CallInPlace("elem1", flip(Elem1, i))
    /\ UNCHANGED <<enum_vars, num_qubits, refs, circ, pc, nops>>

\* append_circuit(elem1, circuit)
AppendCircuit(circuit) ==
    /\ pc = "build"
    /\ CallInPlace("elem1", append_circuit(Elem1, circuit, default_qargs(Elem1)))
    /\ UNCHANGED <<enum_vars, num_qubits, refs, circ, pc, nops>>

\* test_circ = decompose_CNOTDihedral(elem1)
Decompose ==
    /\ pc = "build"
    /\ LET r == decompose_CNOTDihedral(Elem1)
       IN  /\ raised' = r.raised
           /\ circ' = r.circuit
           /\ pc' = IF r.raised = "none" THEN "decomposed" ELSE "failed"
    /\ UNCHANGED <<enum_vars, num_qubits, heap, refs, nops>>

\* new_elem = CNOTDihedral(n); test_elem = append_circuit(new_elem, test_circ)
FromCircuit ==
    /\ pc = "decomposed"
    /\ LET new_elem == CNOTDihedral(num_qubits)
       IN  CallInPlace("elem2",
                       append_circuit(new_elem, circ, default_qargs(new_elem)))
    /\ pc' = "applied"
    /\ UNCHANGED <<enum_vars, num_qubits, refs, circ, nops>>

Next ==
    \/ \E i \in QubitArgs, j \in QubitArgs : Cnot(i, j)
    \/ \E k \in PhasePowers, i \in QubitArgs : Phase(k, i)
    \/ \E i \in QubitArgs : Flip(i)
    \/ \E circuit \in Circuits : AppendCircuit(circuit)
    \/ Decompose
    \/ FromCircuit

Spec == Init /\ [][Next]_vars

\* ------------------------------------------- composition (SpecCompose)
\* Circuits that build operands: gates of the group on the first qubits.
OperandCircuits ==
    {<<u1_gate(6, 0), x_gate(0)>>}
    \cup (IF num_qubits >= 2
          THEN {<<cx_gate(0, 1), u1_gate(2, 1), x_gate(0)>>,
                <<x_gate(1), cx_gate(1, 0), u1_gate(10, 0)>>}
          ELSE {})
    \cup (IF num_qubits >= 3
          THEN {<<cx_gate(0, 1), cx_gate(1, 2), u1_gate(2, 2), x_gate(1)>>,
                <<x_gate(2), cx_gate(2, 0), cx_gate(1, 0), u1_gate(6, 0),
                  cx_gate(0, 1)>>}
          ELSE {})

Operands == {"elem1", "elem2"}

Qubits == 0..(num_qubits - 1)

InitCompose == \E n \in 1..MaxVars : InitHeap(n)

\* One more in-place call on an operand that is still being built.
Build(name, result) ==
    /\ pc = "build"
    /\ nops[name] < MaxOps
    /\ CallInPlace(name, result)
    /\ nops' = [nops EXCEPT ![name] = nops[name] + 1]
    /\ UNCHANGED <<enum_vars, num_qubits, refs, circ, pc>>

BuildCnot(name, i, j) == Build(name, cnot(Deref(heap, refs[name]), i, j))

BuildPhase(name, k, i) == Build(name, phase(Deref(heap, refs[name]), k, i))

BuildFlip(name, i) == Build(name, flip(Deref(heap, refs[name]), i))

BuildCircuit(name, circuit) ==
    Build(name, append_circuit(Deref(heap, refs[name]), circuit,
                               default_qargs(Deref(heap, refs[name]))))

\* The objects a composition binds to the variable value, with every object
\* shared between the result and an operand.
result_ref_shared(self_ref, other_ref) ==
    [num_qubits |-> self_ref.num_qubits, poly |-> other_ref.poly,
     linear |-> self_ref.linear, shift |-> self_ref.shift]

\* The objects of the element a composition returns: result =
\* CNOTDihedral(n) with a new shift list, a new linear list and a new
\* polynomial, bound to the variable value.
result_ref(self_ref, other_ref) == NewRef(self_ref.num_qubits, 3)

\* value = <a composition>: the variable is bound to the returned element,
\* or the exception is raised and nothing is bound.
Return(result, ref, label) ==
    IF IsRaised(result)
    THEN /\ raised' = result.raised
         /\ UNCHANGED <<enum_vars, num_qubits, heap, refs, circ, pc, nops>>
    ELSE /\ raised' = "none"
         /\ refs' = [refs EXCEPT !.value = ref]
         /\ heap' = Store(heap, ref, result)
         /\ pc' = label
         /\ UNCHANGED <<enum_vars, num_qubits, circ, nops>>

\* value = elem1 * elem2, that is elem1.__mul__(elem2)
Mul ==
    /\ pc = "build"
    /\ Return(CNOTDihedral_mul(Elem1, Elem2),
              result_ref(refs.elem1, refs.elem2), "mul")

\* value = elem2.__rmul__(elem1), documented as elem1 * elem2
Rmul ==
    /\ pc = "build"
    /\ Return(CNOTDihedral_rmul(Elem2, Elem1),
              result_ref(refs.elem2, refs.elem1), "rmul")

\* An in-place call on the element a composition returned.
Mutate(result) ==
    /\ pc \in {"mul", "rmul"}
    /\ CallInPlace("value", result)
    /\ pc' = "mutated"
    /\ UNCHANGED <<enum_vars, num_qubits, refs, circ, nops>>

\* value.cnot(i, j)
ValueCnot(i, j) == Mutate(cnot(Value, i, j))

\* value.phase(k, i)
ValuePhase(k, i) == Mutate(phase(Value, k, i))

\* value.flip(i)
ValueFlip(i) == Mutate(flip(Value, i))

NextCompose ==
    \/ \E name \in Operands, i \in Qubits, j \in Qubits :
          i # j /\ BuildCnot(name, i, j)
    \/ \E name \in Operands, i \in Qubits : BuildPhase(name, 1, i)
    \/ \E name \in Operands, i \in Qubits : BuildFlip(name, i)
    \/ \E name \in Operands, circuit \in OperandCircuits :
          BuildCircuit(name, circuit)
    \/ Mul
    \/ Rmul
    \/ \E i \in Qubits, j \in Qubits : i # j /\ ValueCnot(i, j)
    \/ \E i \in Qubits : ValuePhase(3, i)
    \/ \E i \in Qubits : ValueFlip(i)

SpecCompose == InitCompose /\ [][NextCompose]_vars

\* ------------------------------------- polynomial arithmetic (SpecPoly)
\* The polynomial of the element a variable is bound to.
Poly(name) == heap.poly[refs[name].poly]

\* Index lists handed to set_term and mul_monomial: terms of every degree,
\* and one list that is not increasing.
TermIndices ==
    {<<>>, <<0>>, <<1, 0>>}
    \cup (IF num_qubits >= 2 THEN {<<0, 1>>} ELSE {})
    \cup (IF num_qubits >= 3 THEN {<<0, 1, 2>>, <<1, 2>>} ELSE {})

\* Values handed to set_term and scalars handed to __mul__.
TermValues == {-1, 12}

Scalars == {-1, 3, 10}

\* Index lists handed to set_pj.
PjIndices ==
    {<<0>>, <<0, 0>>}
    \cup (IF num_qubits >= 2 THEN {<<1, 0>>} ELSE {})
    \cup (IF num_qubits >= 3 THEN {<<2, 0, 1>>} ELSE {})

InitPoly == \E n \in 1..MaxVars : InitHeap(n)

\* One more in-place call on the polynomial of an operand.
BuildPoly(name, result) ==
    /\ pc = "build"
    /\ nops[name] < MaxOps
    /\ heap' = [heap EXCEPT !.poly[refs[name].poly] = result.self]
    /\ raised' = result.raised
    /\ nops' = [nops EXCEPT ![name] = nops[name] + 1]
    /\ UNCHANGED <<enum_vars, num_qubits, refs, circ, pc>>

\* elem.poly.set_term(indices, value)
SetTerm(name, indices, value) ==
    BuildPoly(name, set_term(Poly(name), indices, value))

\* elem.poly.set_pj(indices)
SetPj(name, indices) == BuildPoly(name, set_pj(Poly(name), indices))

\* value.poly = <an expression>: the polynomial is bound, or the exception is
\* raised and nothing is bound.
BindPoly(result, label) ==
    /\ pc = "build"
    /\ IF IsRaised(result)
       THEN /\ raised' = result.raised
            /\ UNCHANGED <<enum_vars, num_qubits, heap, refs, circ, pc, nops>>
       ELSE /\ raised' = "none"
            /\ heap' = [heap EXCEPT !.poly[refs.value.poly] = result]
            /\ pc' = label
            /\ UNCHANGED <<enum_vars, num_qubits, refs, circ, nops>>

\* value.poly = elem1.poly + elem2.poly
PolyAdd == BindPoly(SpecialPolynomial_add(Poly("elem1"), Poly("elem2")), "add")

\* value.poly = elem1.poly * c, and c * elem1.poly
PolyMulInt(c) == BindPoly(SpecialPolynomial_mul_int(Poly("elem1"), c), "mul_int")

\* value.poly = elem1.poly * elem2.poly
PolyMul ==
    BindPoly(SpecialPolynomial_mul(Poly("elem1"), Poly("elem2")), "mul_poly")

\* value.poly = elem1.poly.mul_monomial(indices)
PolyMulMonomial(indices) ==
    BindPoly(mul_monomial(Poly("elem1"), indices), "mul_monomial")

\* value.poly = elem1.poly.evaluate([elem2.poly, elem1.poly, elem2.poly, ...])
PolyEvaluate ==
    BindPoly(evaluate(Poly("elem1"),
                      Items([i \in Qubits |-> IF i % 2 = 0 THEN Poly("elem2")
                                                           ELSE Poly("elem1")])),
             "evaluate")

NextPoly ==
    \/ \E name \in Operands, indices \in TermIndices, value \in TermValues :
          SetTerm(name, indices, value)
    \/ \E name \in Operands, indices \in PjIndices : SetPj(name, indices)
    \/ \E name \in Operands, k \in PhasePowers, i \in Qubits :
          BuildPhase(name, k, i)
    \/ \E name \in Operands, circuit \in OperandCircuits :
          BuildCircuit(name, circuit)
    \/ PolyAdd
    \/ \E c \in Scalars : PolyMulInt(c)
    \/ PolyMul
    \/ \E indices \in TermIndices : PolyMulMonomial(indices)
    \/ PolyEvaluate
    \/ Mul
    \/ Rmul

SpecPoly == InitPoly /\ [][NextPoly]_vars

\* --------------------------------------- laws of the generators (SpecGen)
\* One element is built in elem1; a generator is then called on it with elem2
\* bound to a copy made before the call (before = copy.deepcopy(elem1)), and
\* the generator that should undo the call is called next.  circ holds the
\* call made, as an instruction (its name, the power k, the qubits).
InitGen == \E n \in 1..MaxVars : InitHeap(n)

\* elem2 = copy.deepcopy(elem1); <an in-place call on elem1>
CallWithCopy(result, instr, label) ==
    /\ pc = "build"
    /\ heap' = Store(Store(heap, refs.elem2, Elem1), refs.elem1, result.self)
    /\ raised' = result.raised
    /\ circ' = <<instr>>
    /\ pc' = label
    /\ UNCHANGED <<enum_vars, num_qubits, refs, nops>>

\* The next in-place call on elem1.
CallAgain(result, from, label) ==
    /\ pc = from
    /\ CallInPlace("elem1", result)
    /\ pc' = label
    /\ UNCHANGED <<enum_vars, num_qubits, refs, circ, nops>>

\* elem1.phase(k, q)
PhaseThere(k, q) ==
    CallWithCopy(phase(Elem1, k, q), Instr("phase", k, <<q>>), "phase")

\* elem1.phase((8 - k) % 8, q)
PhaseBack ==
    CallAgain(phase(Elem1, (8 - circ[1].param) % 8, circ[1].qubits[1]),
              "phase", "phase_back")

\* elem1.cnot(i, j)
CnotThere(i, j) ==
    CallWithCopy(cnot(Elem1, i, j), Instr("cnot", 0, <<i, j>>), "cnot")

\* elem1.cnot(i, j) once more
CnotAgain ==
    CallAgain(cnot(Elem1, circ[1].qubits[1], circ[1].qubits[2]),
              "cnot", "cnot_again")

NextGen ==
    \/ \E i \in Qubits, j \in Qubits : i # j /\ BuildCnot("elem1", i, j)
    \/ \E k \in PhasePowers, i \in Qubits : BuildPhase("elem1", k, i)
    \/ \E i \in Qubits : BuildFlip("elem1", i)
    \/ \E circuit \in OperandCircuits : BuildCircuit("elem1", circuit)
    \/ \E k \in PhasePowers, q \in Qubits : PhaseThere(k, q)
    \/ PhaseBack
    \/ \E i \in Qubits, j \in Qubits : i # j /\ CnotThere(i, j)
    \/ CnotAgain

SpecGen == InitGen /\ [][NextGen]_vars

\* ---------------------------------------------------------- the enumeration
\* make_dict_0 and make_dict_next build the group layer by layer.  A
\* dictionary is [entries, keys]: the list of its entries in insertion order
\* and the set of their keys, which is what a lookup consults; an entry is
\* [key, elem, circ]: the key string, a reference to the CNOTDihedral object
\* and the id of the list object holding the operations.  An operation is a
\* tuple <<"u1", tpower, j>>, <<"x", j>> or <<"cx", i, j>>.

\* The calls of make_dict_next a run makes after make_dict_0.
MaxCalls == 4

\* The largest qubit count the tests work with.
max_qubit_num == 2

\* The qubit counts enumerated.
EnumQubits == 1..max_qubit_num

\* {}
EmptyDict == [entries |-> <<>>, keys |-> {}]

\* len(d)
dict_len(d) == Len(d.entries)

\* key in d
key_in(key, d) == key \in d.keys

\* d[key] = (elem, circ)
dict_set(d, key, elem, ops) ==
    LET entry == [key |-> key, elem |-> elem, circ |-> ops]
    IN  IF key_in(key, d)
        THEN [entries |-> [k \in DOMAIN d.entries |->
                              IF d.entries[k].key = key THEN entry
                              ELSE d.entries[k]],
              keys    |-> d.keys]
        ELSE [entries |-> Append(d.entries, entry),
              keys    |-> d.keys \cup {key}]

\* The heap with one more element object, which takes the next id.
Allocate(h, elem) ==
    [poly   |-> Append(h.poly, elem.poly),
     linear |-> Append(h.linear, elem.linear),
     shift  |-> Append(h.shift, elem.shift)]

\* The heap without the element objects made after the first count ones:
\* what becomes of the copy made for a candidate that no dictionary took.
Reclaim(h, count) ==
    [poly   |-> SubSeq(h.poly, 1, count),
     linear |-> SubSeq(h.linear, 1, count),
     shift  |-> SubSeq(h.shift, 1, count)]

\* The list objects without those made after the first count ones.
ReclaimList(l, count) == SubSeq(l, 1, count)

\* new_elem = elem: the same object under a second name.
deepcopy_alias(h, ref) == [heap |-> h, ref |-> ref]

\* copy.deepcopy(elem): a new object with the value of the old one.
deepcopy(h, ref) ==
    [heap |-> Allocate(h, Deref(h, ref)),
     ref  |-> NewRef(ref.num_qubits, Len(h.poly) + 1)]

\* new_circ = circ: the same list under a second name.
deepcopy_list_alias(l, id) == [lists |-> l, id |-> id]

\* copy.deepcopy(circ): a new list with the items of the old one.
deepcopy_list(l, id) == [lists |-> Append(l, l[id]), id |-> Len(l) + 1]

\* The loop running over half of the digits: 8^n iterations.
dict_0_range_half(n) == 8 ^ n

\* The number of iterations of make_dict_0's loop.
dict_0_range(n) == 16 ^ n

\* The loop over j of make_dict_0 when num is not divided by 16 after a
\* qubit: every qubit reads the same digit.
RECURSIVE dict_0_qubits_same_digit(_, _, _, _)
dict_0_qubits_same_digit(elem, ops, num, j) ==
    IF j >= elem.num_qubits THEN [elem |-> elem, circ |-> ops]
    ELSE LET xpower == PyInt(num % 2, 1)
             tpower == PyInt(((num - (num % 2)) \div 2) % 8, 1)
             elem_t == IF tpower > 0 THEN phase(elem, tpower, j).self ELSE elem
             ops_t  == IF tpower > 0 THEN Append(ops, <<"u1", tpower, j>>)
                       ELSE ops
             elem_x == IF xpower = 1 THEN flip(elem_t, j).self ELSE elem_t
             ops_x  == IF xpower = 1 THEN Append(ops_t, <<"x", j>>) ELSE ops_t
         IN  dict_0_qubits_same_digit(elem_x, ops_x, num, j + 1)

\* The loop over j of make_dict_0 when the flip is recorded before the phase
\* although it is applied after it.
RECURSIVE dict_0_qubits_flip_recorded_first(_, _, _, _)
dict_0_qubits_flip_recorded_first(elem, ops, num, j) ==
    IF j >= elem.num_qubits THEN [elem |-> elem, circ |-> ops]
    ELSE LET xpower == PyInt(num % 2, 1)
             tpower == PyInt(((num - (num % 2)) \div 2) % 8, 1)
             elem_t == IF tpower > 0 THEN phase(elem, tpower, j).self ELSE elem
             elem_x == IF xpower = 1 THEN flip(elem_t, j).self ELSE elem_t
             ops_x  == IF xpower = 1 THEN Append(ops, <<"x", j>>) ELSE ops
             ops_t  == IF tpower > 0 THEN Append(ops_x, <<"u1", tpower, j>>)
                       ELSE ops_x
         IN  dict_0_qubits_flip_recorded_first(
                 elem_x, ops_t, PyInt(num - (num % 16), 16), j + 1)

\* The loop over j of make_dict_0, from qubit j on: num's low hexadecimal
\* digit gives xpower (its lowest bit) and tpower (the other three).
RECURSIVE dict_0_qubits(_, _, _, _)
dict_0_qubits(elem, ops, num, j) ==
    IF j >= elem.num_qubits THEN [elem |-> elem, circ |-> ops]
    ELSE LET xpower == PyInt(num % 2, 1)
             tpower == PyInt(((num - (num % 2)) \div 2) % 8, 1)
             elem_t == IF tpower > 0 THEN phase(elem, tpower, j).self ELSE elem
             ops_t  == IF tpower > 0 THEN Append(ops, <<"u1", tpower, j>>)
                       ELSE ops
             elem_x == IF xpower = 1 THEN flip(elem_t, j).self ELSE elem_t
             ops_x  == IF xpower = 1 THEN Append(ops_t, <<"x", j>>) ELSE ops_t
         IN  dict_0_qubits(elem_x, ops_x, PyInt(num - (num % 16), 16), j + 1)

\* One iteration of make_dict_0's loop over i: a new element and a new list
\* are built and stored under the element's key.
make_dict_0_iter(n, state, i) ==
    LET built == dict_0_qubits(CNOTDihedral(n), <<>>, i, 0)
    IN  [heap  |-> Allocate(state.heap, built.elem),
         lists |-> Append(state.lists, built.circ),
         obj   |-> dict_set(state.obj, CNOTDihedral_key(built.elem),
                            NewRef(n, Len(state.heap.poly) + 1),
                            Len(state.lists) + 1)]

\* The (i, j, tpower) of make_dict_next's three inner loops, in their order.
next_candidates(n) ==
    LET pairs == SortLex({ij \in (0..(n - 1)) \X (0..(n - 1)) : ij[1] # ij[2]})
    IN  [c \in 1..(4 * Len(pairs)) |->
            <<pairs[((c - 1) \div 4) + 1][1], pairs[((c - 1) \div 4) + 1][2],
              (c - 1) % 4>>]

\* The body of make_dict_next's innermost loop for one (i, j, tpower): the
\* copies are changed in place and kept when their key is new.
next_candidate(state, prior, entry, i, j, tpower) ==
    LET copied   == deepcopy(state.heap, entry.elem)
        copied_l == deepcopy_list(state.lists, entry.circ)
        new_elem == copied.ref
        new_circ == copied_l.id
        heap_cx  == Store(copied.heap, new_elem,
                          cnot(Deref(copied.heap, new_elem), i, j).self)
        list_cx  == [copied_l.lists EXCEPT
                        ![new_circ] = Append(@, <<"cx", i, j>>)]
        heap_t   == IF tpower > 0
                    THEN Store(heap_cx, new_elem,
                               phase(Deref(heap_cx, new_elem), tpower, j).self)
                    ELSE heap_cx
        list_t   == IF tpower > 0
                    THEN [list_cx EXCEPT
                             ![new_circ] = Append(@, <<"u1", tpower, j>>)]
                    ELSE list_cx
        key      == CNOTDihedral_key(Deref(heap_t, new_elem))
    IN  IF (\A d \in DOMAIN prior : ~key_in(key, prior[d]))
           /\ ~key_in(key, state.obj)
        THEN [heap  |-> heap_t, lists |-> list_t,
              obj   |-> dict_set(state.obj, key, new_elem, new_circ)]
        ELSE [heap  |-> Reclaim(heap_t, Len(state.heap.poly)),
              lists |-> ReclaimList(list_t, Len(state.lists)),
              obj   |-> state.obj]

\* One iteration of make_dict_next's loop over the entries of the last prior
\* dictionary: the inner loops from candidate c on.
RECURSIVE make_dict_next_iter(_, _, _, _, _)
make_dict_next_iter(n, state, prior, entry, c) ==
    IF c > Len(next_candidates(n)) THEN state
    ELSE make_dict_next_iter(n,
             next_candidate(state, prior, entry, next_candidates(n)[c][1],
                            next_candidates(n)[c][2], next_candidates(n)[c][3]),
             prior, entry, c + 1)

\* The state the loops of the enumeration work on.
EnumState == [heap |-> heap, lists |-> lists, obj |-> obj]

InitEnum == \E n \in EnumQubits : InitHeap(n)

\* make_dict_0(num_qubits) is entered: obj = {}
MakeDict0(n) ==
    /\ pc = "build"
    /\ n = num_qubits
    /\ n >= 1
    /\ obj' = EmptyDict
    /\ pos' = 0
    /\ pc' = "make_dict_0"
    /\ UNCHANGED <<num_qubits, heap, refs, circ, nops, raised, dicts, lists>>

\* for i in range(16**num_qubits): one iteration
MakeDict0Iter ==
    /\ pc = "make_dict_0"
    /\ pos < dict_0_range(num_qubits)
    /\ LET after == make_dict_0_iter(num_qubits, EnumState, pos)
       IN  /\ heap' = after.heap
           /\ lists' = after.lists
           /\ obj' = after.obj
    /\ pos' = pos + 1
    /\ UNCHANGED <<num_qubits, refs, circ, pc, nops, raised, dicts>>

\* return obj, to the caller that keeps the dictionaries in a list
MakeDict0Return ==
    /\ pc = "make_dict_0"
    /\ pos = dict_0_range(num_qubits)
    /\ dicts' = <<obj>>
    /\ pc' = "layers"
    /\ UNCHANGED <<num_qubits, heap, refs, circ, nops, raised, obj, lists, pos>>

\* make_dict_next(num_qubits, dicts) is entered: obj = {}
MakeDictNext(n) ==
    /\ pc = "layers"
    /\ Len(dicts) <= MaxCalls
    /\ n = num_qubits
    /\ n >= 1
    /\ obj' = EmptyDict
    /\ pos' = 0
    /\ pc' = "make_dict_next"
    /\ UNCHANGED <<num_qubits, heap, refs, circ, nops, raised, dicts, lists>>

\* for elem, circ in dicts_prior[-1].values(): one iteration
MakeDictNextIter ==
    /\ pc = "make_dict_next"
    /\ pos < dict_len(dicts[Len(dicts)])
    /\ LET after == make_dict_next_iter(num_qubits, EnumState, dicts,
                                        dicts[Len(dicts)].entries[pos + 1], 1)
       IN  /\ heap' = after.heap
           /\ lists' = after.lists
           /\ obj' = after.obj
    /\ pos' = pos + 1
    /\ UNCHANGED <<num_qubits, refs, circ, pc, nops, raised, dicts>>

\* return obj, which the caller appends to its list of dictionaries
MakeDictNextReturn ==
    /\ pc = "make_dict_next"
    /\ pos = dict_len(dicts[Len(dicts)])
    /\ dicts' = Append(dicts, obj)
    /\ pc' = "layers"
    /\ UNCHANGED <<num_qubits, heap, refs, circ, nops, raised, obj, lists, pos>>

NextEnum ==
    \/ MakeDict0(num_qubits)
    \/ MakeDict0Iter
    \/ MakeDict0Return
    \/ MakeDictNext(num_qubits)
    \/ MakeDictNextIter
    \/ MakeDictNextReturn

SpecEnum == InitEnum /\ [][NextEnum]_vars

\* ------------------------------------------------ generator sequences, counted
\* Any sequence of cnot, phase and flip on elem1 from the identity, with the
\* cnot calls counted in nops.elem1, and the element decomposed at any point;
\* next to it, the enumeration.

\* The cnot calls a sequence makes at most.
MaxCnots == 3

\* elem1.cnot(i, j), counted
WalkCnot(i, j) ==
    /\ pc \in {"build", "walk"}
    /\ nops.elem1 < MaxCnots
    /\ CallInPlace("elem1", cnot(Elem1, i, j))
    /\ nops' = [nops EXCEPT !.elem1 = @ + 1]
    /\ pc' = "walk"
    /\ UNCHANGED <<enum_vars, num_qubits, refs, circ>>

\* elem1.phase(k, i)
WalkPhase(k, i) ==
    /\ pc \in {"build", "walk"}
    /\ CallInPlace("elem1", phase(Elem1, k, i))
    /\ pc' = "walk"
    /\ UNCHANGED <<enum_vars, num_qubits, refs, circ, nops>>

\* elem1.flip(i)
WalkFlip(i) ==
    /\ pc \in {"build", "walk"}
    /\ CallInPlace("elem1", flip(Elem1, i))
    /\ pc' = "walk"
    /\ UNCHANGED <<enum_vars, num_qubits, refs, circ, nops>>

\* test_circ = decompose_CNOTDihedral(elem1)
WalkDecompose ==
    /\ pc = "walk"
    /\ LET r == decompose_CNOTDihedral(Elem1)
       IN  /\ raised' = r.raised
           /\ circ' = r.circuit
    /\ pc' = "decomposed"
    /\ UNCHANGED <<enum_vars, num_qubits, heap, refs, nops>>

NextWalk ==
    \/ \E i \in Qubits, j \in Qubits : i # j /\ WalkCnot(i, j)
    \/ \E k \in PhasePowers, i \in Qubits : WalkPhase(k, i)
    \/ \E i \in Qubits : WalkFlip(i)
    \/ WalkDecompose

NextMinimal == NextEnum \/ NextWalk

SpecMinimal == InitEnum /\ [][NextMinimal]_vars

\* ---------------------------------------------------------------- the sampler
\* random_CNOTDihedral draws the weight lists, the linear part and the shift;
\* a run of it is determined by what np.random.randint returns.

\* The longest list of which np.random.randint(high, size=...) is taken to
\* return every value; a longer one is drawn with equal items.
MaxDrawSize == 2

\* What np.random.randint(high, size=size) can return.
randint(high, size) ==
    IF size <= MaxDrawSize
    THEN {Items(l) : l \in [0..(size - 1) -> 0..(high - 1)]}
    ELSE {List(size, v) : v \in 0..(high - 1)}

\* What np.random.randint(2, size=(n, n)), as lists, can return.
randint_matrix(n) ==
    {Items([i \in 0..(n - 1) |-> Items(m[i])]) :
        m \in [0..(n - 1) -> [0..(n - 1) -> 0..1]]}

\* The permutations of 0..n-1, and the sign of one.
Permutations0(n) ==
    {p \in [0..(n - 1) -> 0..(n - 1)] :
        \A a \in 0..(n - 1), b \in 0..(n - 1) : a # b => p[a] # p[b]}

PermutationSign(p) ==
    IF Cardinality({ab \in (DOMAIN p) \X (DOMAIN p) :
                       ab[1] < ab[2] /\ p[ab[1]] > p[ab[2]]}) % 2 = 0
    THEN 1 ELSE -1

RECURSIVE PermutationProduct(_, _, _)
PermutationProduct(m, p, i) ==
    IF i >= ListLen(m) THEN 1 ELSE m[i][p[i]] * PermutationProduct(m, p, i + 1)

RECURSIVE SumOver(_, _)
SumOver(m, perms) ==
    IF perms = {} THEN 0
    ELSE LET p == CHOOSE q \in perms : TRUE
         IN  PermutationSign(p) * PermutationProduct(m, p, 0)
             + SumOver(m, perms \ {p})

\* np.linalg.det(linear): the determinant, which the floating-point
\* elimination gives exactly for matrices of 0 and 1 of these sizes.
det(m) == SumOver(m, Permutations0(ListLen(m)))

\* det = np.linalg.det(linear) % 2, the value the while loop tests.
det_loop(m) == det(m) % 2

\* random_CNOTDihedral(num_qubits) for one outcome of the draws; linear is
\* the matrix on which the while loop ended.
random_CNOTDihedral(n, weight_1, weight_2, weight_3, linear, shift) ==
    [num_qubits |-> n,
     poly       |-> [SpecialPolynomial(n) EXCEPT !.weight_1 = weight_1,
                                                 !.weight_2 = weight_2,
                                                 !.weight_3 = weight_3],
     linear     |-> linear,
     shift      |-> shift]

InitSample == \E n \in 1..MaxVars : InitHeap(n)

\* The matrices on which the while loop of random_CNOTDihedral(n) can end.
loop_exits(n) == {linear \in randint_matrix(n) : det_loop(linear) # 0}

\* elem = random_cnotdihedral(qubit_num, seed=nseed)
Sample ==
    /\ pc = "build"
    /\ \E linear \in loop_exits(num_qubits),
          weight_1 \in randint(8, num_qubits),
          weight_2 \in randint(3, nc2(num_qubits)),
          weight_3 \in randint(8, nc3(num_qubits)),
          shift \in randint(2, num_qubits) :
            heap' = Store(heap, refs.elem1,
                          random_CNOTDihedral(
                              num_qubits, weight_1,
                              Items([t \in DOMAIN weight_2 |-> 2 * weight_2[t]]),
                              weight_3, linear, shift))
    /\ pc' = "sampled"
    /\ UNCHANGED <<enum_vars, num_qubits, refs, circ, nops, raised>>

\* if qubit_num < 3: test_circ = elem.to_circuit()
SampleDecompose ==
    /\ pc = "sampled"
    /\ num_qubits < 3
    /\ LET r == decompose_CNOTDihedral(Elem1)
       IN  /\ raised' = r.raised
           /\ circ' = r.circuit
           /\ pc' = IF r.raised = "none" THEN "decomposed" ELSE "failed"
    /\ UNCHANGED <<enum_vars, num_qubits, heap, refs, nops>>

NextSample ==
    \/ Sample
    \/ SampleDecompose
    \/ FromCircuit

SpecSample == InitSample /\ [][NextSample]_vars

\* ------------------------------------------------------- term addressing
\* set_term and get_term on polynomials of up to MaxTermVars variables: every
\* call stores one term of the polynomial of elem1, of which elem2 keeps the
\* value it had before the call.

\* The variable counts of the polynomials addressed.
MaxTermVars == 6

\* The set_term calls made on one polynomial.
MaxStores == 2

\* The valid terms of n_vars variables: increasing lists of at most three
\* indices in range.
ValidTerms(n_vars) ==
    {<<>>} \cup SeqToSet(terms1(n_vars)) \cup SeqToSet(terms2(n_vars))
    \cup SeqToSet(terms3(n_vars))

InitTerm == \E n \in 1..MaxTermVars : InitHeap(n)

\* elem1.poly.set_term(indices, value)
StoreTerm(indices, value) ==
    /\ pc \in {"build", "stored"}
    /\ raised = "none"
    /\ nops.elem1 < MaxStores
    /\ LET r == set_term(Poly("elem1"), indices, value)
       IN  /\ heap' = [heap EXCEPT !.poly[refs.elem2.poly] = Poly("elem1"),
                                   !.poly[refs.elem1.poly] = r.self]
           /\ raised' = r.raised
    /\ circ' = <<Instr("set_term", value, indices)>>
    /\ nops' = [nops EXCEPT !.elem1 = @ + 1]
    /\ pc' = "stored"
    /\ UNCHANGED <<enum_vars, num_qubits, refs>>

NextTerm ==
    \E indices \in ValidTerms(num_qubits), value \in TermValues :
        StoreTerm(indices, value)

SpecTerm == InitTerm /\ [][NextTerm]_vars

\* ------------------------------------------------- products with a monomial
\* mul_monomial on polynomials of up to MaxMonomialVars variables that
\* set_term calls have made.

\* The variable counts of the polynomials multiplied.
MaxMonomialVars == 4

InitMonomial == \E n \in 1..MaxMonomialVars : InitHeap(n)

\* value.poly = elem1.poly.mul_monomial(indices); elem2 keeps the value the
\* polynomial of elem1 had before the call.
MulMonomial(indices) ==
    /\ pc \in {"build", "stored"}
    /\ raised = "none"
    /\ LET r == mul_monomial(Poly("elem1"), indices)
       IN  IF IsRaised(r)
           THEN /\ raised' = r.raised
                /\ heap' = [heap EXCEPT
                               !.poly[refs.elem2.poly] = Poly("elem1")]
           ELSE /\ raised' = "none"
                /\ heap' = [heap EXCEPT
                               !.poly[refs.elem2.poly] = Poly("elem1"),
                               !.poly[refs.value.poly] = r]
    /\ circ' = <<Instr("mul_monomial", 0, indices)>>
    /\ pc' = "multiplied"
    /\ UNCHANGED <<enum_vars, num_qubits, refs, nops>>

NextMonomial ==
    \/ \E indices \in ValidTerms(num_qubits), value \in TermValues :
          StoreTerm(indices, value)
    \/ \E indices \in ValidTerms(num_qubits) : MulMonomial(indices)

SpecMonomial == InitMonomial /\ [][NextMonomial]_vars

\* ------------------------------------------------- phase on a row of linear
\* phase on the last qubit of elements of up to MaxPhaseVars qubits, after
\* cnot, flip and phase calls on that qubit have made its row and the
\* polynomial.

\* The qubit counts of the elements phase is called on.
MaxPhaseVars == 5
\* The calls that make the element before the phase call looked at.
MaxRowOps == 4

InitPhase == \E n \in 1..MaxPhaseVars : InitHeap(n)

\* The qubit whose row the calls build.
RowQubit == num_qubits - 1

\* One more in-place call on elem1 before the phase call looked at.
RowCall(result) ==
    /\ pc = "build"
    /\ nops.elem1 < MaxRowOps
    /\ CallInPlace("elem1", result)
    /\ nops' = [nops EXCEPT !.elem1 = @ + 1]
    /\ UNCHANGED <<enum_vars, num_qubits, refs, circ, pc>>

\* elem1.cnot(i, RowQubit)
RowCnot(i) == RowCall(cnot(Elem1, i, RowQubit))

\* elem1.flip(RowQubit)
RowFlip == RowCall(flip(Elem1, RowQubit))

\* elem1.phase(k, RowQubit)
RowPhase(k) == RowCall(phase(Elem1, k, RowQubit))

NextPhase ==
    \/ \E i \in Qubits \ {RowQubit} : RowCnot(i)
    \/ RowFlip
    \/ \E k \in PhasePowers : RowPhase(k)
    \/ \E k \in PhasePowers : PhaseThere(k, RowQubit)

SpecPhase == InitPhase /\ [][NextPhase]_vars

\* ---------------------------------------------------------------- properties
\* Arithmetic over Z_2 as the documentation states it, on the qubits of the
\* run.
Z2MatMul(A, B) ==
    [i \in Qubits |-> [j \in Qubits |->
        Cardinality({k \in Qubits : A[i][k] = 1 /\ B[k][j] = 1}) % 2]]

Z2MatVec(A, v) ==
    [i \in Qubits |-> Cardinality({k \in Qubits : A[i][k] = 1 /\ v[k] = 1}) % 2]

Z2Xor(u, v) == [i \in Qubits |-> (u[i] + v[i]) % 2]

IsBinaryVector(v) == DOMAIN v = Qubits /\ \A i \in Qubits : v[i] \in {0, 1}

IsBinaryMatrix(A) == DOMAIN A = Qubits /\ \A i \in Qubits : IsBinaryVector(A[i])

\* Invertible over Z_2: no non-empty set of rows sums to the zero row.
Invertible(A) ==
    \A S \in (SUBSET Qubits) \ {{}} :
        \E j \in Qubits : Cardinality({i \in S : A[i][j] = 1}) % 2 = 1

IdentityElement == CNOTDihedral(num_qubits)

IdentityMatrix == [i \in Qubits |-> [j \in Qubits |-> IF i = j THEN 1 ELSE 0]]

ZeroVector == [i \in Qubits |-> 0]

\* The elements the variables of the program are bound to.
Registers == {Elem1, Elem2, Value}

\* The element a circuit makes of elem, by the in-place generators.
Applied(elem, circuit) == append_circuit(elem, circuit, default_qargs(elem)).self

\* p_J as the documentation defines it: (-2)^(|a|-1) modulo 8 at every
\* non-empty a within J of at most three variables, the terms of a degree in
\* lexicographic order.
PJ(J) ==
    [n_vars   |-> num_qubits,
     weight_0 |-> 0,
     weight_1 |-> [i \in Qubits |-> IF i \in J THEN 1 ELSE 0],
     weight_2 |-> [k \in 0..(Len(terms2(num_qubits)) - 1) |->
                     IF SeqToSet(terms2(num_qubits)[k + 1]) \subseteq J
                     THEN 6 ELSE 0],
     weight_3 |-> [k \in 0..(Len(terms3(num_qubits)) - 1) |->
                     IF SeqToSet(terms3(num_qubits)[k + 1]) \subseteq J
                     THEN 4 ELSE 0]]

\* p negated modulo 8, with 1 added to the constant term.
OneMinus(p) ==
    [n_vars   |-> p.n_vars,
     weight_0 |-> (1 + 8 - p.weight_0) % 8,
     weight_1 |-> [i \in DOMAIN p.weight_1 |-> (8 - p.weight_1[i]) % 8],
     weight_2 |-> [i \in DOMAIN p.weight_2 |-> (8 - p.weight_2[i]) % 8],
     weight_3 |-> [i \in DOMAIN p.weight_3 |-> (8 - p.weight_3[i]) % 8]]

\* The substituted variables v_0..v_{n-1} for the rows of a matrix and a shift.
Substituted(linear, shift) ==
    [i \in Qubits |->
        IF shift[i] = 1
        THEN OneMinus(PJ({j \in Qubits : linear[i][j] # 0}))
        ELSE PJ({j \in Qubits : linear[i][j] # 0})]

\* b_poly + a_poly evaluated at the substituted variables.
SubstitutedSum(a_poly, b_poly, linear, shift) ==
    SpecialPolynomial_add(b_poly, evaluate(a_poly, Substituted(linear, shift)))

\* Every coefficient a polynomial stores.
Coefficients(p) ==
    {p.weight_0} \cup {p.weight_1[i] : i \in DOMAIN p.weight_1}
    \cup {p.weight_2[i] : i \in DOMAIN p.weight_2}
    \cup {p.weight_3[i] : i \in DOMAIN p.weight_3}

\* Generating sequences: one generator, or one of the operand circuits.
GeneratingCircuits ==
    OperandCircuits
    \cup {<<cx_gate(ij[1], ij[2])>> : ij \in {t \in Qubits \X Qubits : t[1] # t[2]}}
    \cup {<<u1_gate(2, i)>> : i \in Qubits}
    \cup {<<x_gate(i)>> : i \in Qubits}

\* Third operands of an associativity check.
ThirdElements ==
    {Applied(IdentityElement, circuit) : circuit \in OperandCircuits}

\* C1: for n in {1, 2}, the circuit decompose_CNOTDihedral returns for an
\* element made by the generators, applied to the identity by append_circuit,
\* gives an element with the key of the original.
C1_RoundTrip ==
    pc = "applied" => CNOTDihedral_key(Elem2) = CNOTDihedral_key(Elem1)

\* A round trip of a 2-qubit element of the swap class with a flipped qubit
\* and a quadratic term.
C1_Witness ==
    /\ pc = "applied"
    /\ num_qubits = 2
    /\ Elem1.linear = [i \in Qubits |-> [j \in Qubits |-> IF i = j THEN 0 ELSE 1]]
    /\ Elem1.shift[0] = 1
    /\ Elem1.poly.weight_2[0] = 6
    /\ Len(circ) >= 5

\* C2: for n in {1, 2}, the composite elem1 * elem2 has the key of the
\* element made by applying to elem2 (the identity after its own generating
\* sequence) a generating sequence of elem1.
C2_ComposeIsSequencing ==
    (pc = "mul" /\ num_qubits < 3) =>
        \A circuit \in GeneratingCircuits :
            CNOTDihedral_key(Applied(IdentityElement, circuit))
                = CNOTDihedral_key(Elem1)
            => CNOTDihedral_key(Value)
                = CNOTDihedral_key(Applied(Elem2, circuit))

C5_AffinePartWellFormed ==
    \A e \in Registers :
        /\ IsBinaryMatrix(e.linear)
        /\ Invertible(e.linear)
        /\ IsBinaryVector(e.shift)

\* A composite changed by a generator, whose linear part is none of the
\* operands' and not the identity matrix.
C5_Witness ==
    /\ pc = "mutated"
    /\ num_qubits = 3
    /\ Value.linear \notin {IdentityMatrix, Elem1.linear, Elem2.linear}
    /\ Value.shift # ZeroVector

\* C6: every coefficient of every polynomial is an integer in 0..7.
C6_CoefficientsReduced ==
    \A id \in DOMAIN heap.poly : Coefficients(heap.poly[id]) \subseteq 0..7

\* A polynomial multiplied by -1 that has a cubic coefficient of 4 and a
\* linear coefficient of 7.
C6_Witness ==
    /\ pc = "mul_int"
    /\ num_qubits = 3
    /\ Poly("value").weight_3[0] = 4
    /\ \E i \in Qubits : Poly("value").weight_1[i] = 7

\* C7: a composition, in either orientation, leaves both operands as they
\* were, and so does a generator called on the element it returned.
C7_CompositionIsPure ==
    [][(\/ pc = "build" /\ pc' \in {"mul", "rmul"}
        \/ pc \in {"mul", "rmul"} /\ pc' = "mutated")
       => (Elem1' = Elem1 /\ Elem2' = Elem2)]_vars

\* A composite of two operands other than the identity, changed by a generator.
C7_Witness ==
    /\ pc = "mutated"
    /\ CNOTDihedral_key(Elem1) # CNOTDihedral_key(IdentityElement)
    /\ CNOTDihedral_key(Elem2) # CNOTDihedral_key(IdentityElement)
    /\ Value.linear # Z2MatMul(Elem1.linear, Elem2.linear)

\* C8: a call that raises leaves the element it was made on as it was.
C8_ValidateBeforeMutate == [][raised' # "none" => heap' = heap]_vars

\* C9: the composite of elem1 and elem2, in either orientation, has the
\* linear part elem1.linear * elem2.linear and the shift
\* (elem1.linear * elem2.shift) XOR elem1.shift.
C9_AffinePart ==
    pc \in {"mul", "rmul"} =>
        /\ Value.linear = Z2MatMul(Elem1.linear, Elem2.linear)
        /\ Value.shift = Z2Xor(Z2MatVec(Elem1.linear, Elem2.shift), Elem1.shift)

\* A mirrored composition of two 3-qubit operands whose linear parts do not
\* commute, the second with a flipped qubit that the first moves.
C9_Witness ==
    /\ pc = "rmul"
    /\ num_qubits = 3
    /\ Z2MatMul(Elem1.linear, Elem2.linear) # Z2MatMul(Elem2.linear, Elem1.linear)
    /\ Z2MatVec(Elem1.linear, Elem2.shift) # Elem2.shift
    /\ Elem1.shift # ZeroVector

\* C10 as stated: the polynomial of elem1 * elem2 is elem2.poly plus
\* elem1.poly at the variables substituted for the rows of elem1.linear.
C10_RowsOfLeftOperand ==
    pc = "mul" =>
        SpecialPolynomial_key(Value.poly)
            = SpecialPolynomial_key(SubstitutedSum(Elem1.poly, Elem2.poly,
                                                   Elem1.linear, Elem2.shift))

\* C10: the polynomial of elem1 * elem2 is elem2.poly plus elem1.poly at the
\* variables substituted for the rows of elem2.linear: v_i is p_J on the
\* non-zero columns of row i, negated with 1 added where elem2.shift[i] = 1.
C10_RowsOfRightOperand ==
    pc = "mul" =>
        SpecialPolynomial_key(Value.poly)
            = SpecialPolynomial_key(SubstitutedSum(Elem1.poly, Elem2.poly,
                                                   Elem2.linear, Elem2.shift))

\* A composite whose polynomial is not the one the rows of elem1.linear give,
\* the right operand with a flipped qubit.
C10_Witness ==
    /\ pc = "mul"
    /\ Elem2.shift # ZeroVector
    /\ SpecialPolynomial_key(Value.poly)
         # SpecialPolynomial_key(SubstitutedSum(Elem1.poly, Elem2.poly,
                                                Elem1.linear, Elem2.shift))

\* C11: phase(k, q) and then phase((8 - k) mod 8, q) leave the element with
\* the polynomial it had before the two calls, and neither call changes
\* linear or shift.
C11_PhaseInverse ==
    /\ pc \in {"phase", "phase_back"} =>
          Elem1.linear = Elem2.linear /\ Elem1.shift = Elem2.shift
    /\ pc = "phase_back" =>
          SpecialPolynomial_key(Elem1.poly) = SpecialPolynomial_key(Elem2.poly)

\* A phase of power 3 undone on a flipped qubit of a 3-qubit element whose
\* row has three non-zero columns.
C11_Witness ==
    /\ pc = "phase_back"
    /\ num_qubits = 3
    /\ circ[1].param = 3
    /\ Elem1.shift[circ[1].qubits[1]] = 1
    /\ \A j \in Qubits : Elem1.linear[circ[1].qubits[1]][j] = 1
    /\ Elem1.poly.weight_3[0] # 0

\* C12: one cnot(i, j) changes row j of linear and entry j of shift only and
\* never the polynomial; the second cnot(i, j) gives back linear and shift.
C12_CnotInvolution ==
    /\ pc \in {"cnot", "cnot_again"} =>
          /\ SpecialPolynomial_key(Elem1.poly) = SpecialPolynomial_key(Elem2.poly)
          /\ \A r \in Qubits \ {circ[1].qubits[2]} :
                Elem1.linear[r] = Elem2.linear[r] /\ Elem1.shift[r] = Elem2.shift[r]
    /\ pc = "cnot" => Elem1.linear # Elem2.linear
    /\ pc = "cnot_again" =>
          Elem1.linear = Elem2.linear /\ Elem1.shift = Elem2.shift

\* A cnot done twice on a 3-qubit element whose control qubit is flipped and
\* whose linear part is not the identity matrix.
C12_Witness ==
    /\ pc = "cnot_again"
    /\ num_qubits = 3
    /\ Elem1.shift[circ[1].qubits[1]] = 1
    /\ Elem1.linear # IdentityMatrix
    /\ Elem1.poly.weight_2 # [k \in DOMAIN Elem1.poly.weight_2 |-> 0]

\* The entries of a dictionary, and the elements they hold.
Entries(d) == {d.entries[k] : k \in DOMAIN d.entries}

EntryElem(entry) == Deref(heap, entry.elem)

\* The zero-CNOT dictionary, once make_dict_0 has returned it.
ZeroDict == dicts[1]

\* C13: the dictionary make_dict_0 returns has 16^n entries with pairwise
\* distinct keys; every element in it has the identity as linear part, no
\* quadratic and no cubic coefficient, and the linear coefficients (in 0..7)
\* and shifts (in 0..1) of the elements are all the 16^n combinations.
C13_ZeroDictionary ==
    (pc = "layers" /\ Len(dicts) = 1) =>
        /\ dict_len(ZeroDict) = 16 ^ num_qubits
        /\ Cardinality({e.key : e \in Entries(ZeroDict)}) = 16 ^ num_qubits
        /\ \A e \in Entries(ZeroDict) :
              /\ EntryElem(e).linear = IdentityMatrix
              /\ \A t \in DOMAIN EntryElem(e).poly.weight_2 :
                    EntryElem(e).poly.weight_2[t] = 0
              /\ \A t \in DOMAIN EntryElem(e).poly.weight_3 :
                    EntryElem(e).poly.weight_3[t] = 0
              /\ EntryElem(e).poly.weight_0 = 0
        /\ {<<EntryElem(e).poly.weight_1, EntryElem(e).shift>> :
                e \in Entries(ZeroDict)}
           = [Qubits -> 0..7] \X [Qubits -> 0..1]

\* make_dict_0 has returned the 256 entries of two qubits, one of them an
\* element with phases and flips on both.
C13_Witness ==
    /\ pc = "layers"
    /\ Len(dicts) = 1
    /\ num_qubits = 2
    /\ dict_len(ZeroDict) = 256
    /\ \E e \in Entries(ZeroDict) :
          /\ EntryElem(e).poly.weight_1 = [q \in Qubits |-> 7]
          /\ EntryElem(e).shift = [q \in Qubits |-> 1]

\* The keys of a dictionary's entries.
KeySet(d) == {e.key : e \in Entries(d)}

\* No key occurs in two of the dictionaries made so far.
LayersDisjoint ==
    \A a \in DOMAIN dicts : \A b \in DOMAIN dicts :
        a < b => KeySet(dicts[a]) \cap KeySet(dicts[b]) = {}

\* Every entry is stored under the key of the element it holds.
KeysMatch ==
    \A a \in DOMAIN dicts : \A e \in Entries(dicts[a]) :
        e.key = CNOTDihedral_key(EntryElem(e))

\* A step leaves every element object and every operation list that existed
\* before it as it was, and the dictionaries made before it too.
StoredUnchanged ==
    /\ Len(heap'.poly) >= Len(heap.poly)
    /\ SubSeq(heap'.poly, 1, Len(heap.poly)) = heap.poly
    /\ SubSeq(heap'.linear, 1, Len(heap.linear)) = heap.linear
    /\ SubSeq(heap'.shift, 1, Len(heap.shift)) = heap.shift
    /\ Len(lists') >= Len(lists)
    /\ SubSeq(lists', 1, Len(lists)) = lists
    /\ Len(dicts') >= Len(dicts)
    /\ SubSeq(dicts', 1, Len(dicts)) = dicts

\* C14: whenever make_dict_0 or make_dict_next has returned, the layers made
\* so far are pairwise disjoint in their keys and every entry's key is the
\* key of the element stored with it; and no step of make_dict_next changes
\* an element, an operation list or a dictionary that existed before it.
C14_LayersDisjoint ==
    [][/\ pc' = "layers" => LayersDisjoint' /\ KeysMatch'
       /\ pc = "make_dict_next" => StoredUnchanged]_vars

\* make_dict_next has returned a non-empty layer 1 on two qubits.
C14_Witness ==
    /\ pc = "layers"
    /\ num_qubits = 2
    /\ Len(dicts) = 2
    /\ dict_len(dicts[2]) > 0

\* The CNOT gates of a circuit.
CxCount(circuit) == Cardinality({k \in DOMAIN circuit : circuit[k].name = "cx"})

\* C15: the circuit decompose_CNOTDihedral returns for an element has as many
\* CNOT gates as the index of the layer the enumeration puts the element in,
\* and no more than the cnot calls of any generator sequence that made the
\* element; for one qubit it has none.
C15_MinimalCnotCount ==
    /\ pc = "layers" =>
          \A m \in DOMAIN dicts : \A e \in Entries(dicts[m]) :
              /\ decompose_CNOTDihedral(EntryElem(e)).raised = "none"
              /\ CxCount(decompose_CNOTDihedral(EntryElem(e)).circuit) = m - 1
    /\ pc = "decomposed" =>
          /\ raised = "none"
          /\ CxCount(circ) <= nops.elem1
          /\ num_qubits = 1 => CxCount(circ) = 0

\* The enumeration has returned layer 1 on two qubits, and the circuit of one
\* of its elements has one CNOT gate.
C15_Witness ==
    /\ pc = "layers"
    /\ num_qubits = 2
    /\ Len(dicts) = 2
    /\ \E e \in Entries(dicts[2]) :
          CxCount(decompose_CNOTDihedral(EntryElem(e)).circuit) = 1

\* What each of the nine cases of the 2-qubit decomposition emits for elem:
\* the four classes of the identity linear part, then the five other linear
\* parts; a case that does not match emits nothing.
Cases(elem) ==
    LET identity_linear ==
            elem.linear = PyList(<<PyList(<<1, 0>>), PyList(<<0, 1>>)>>)
    IN  <<IF identity_linear THEN class_dihedral(elem) ELSE <<>>,
          IF identity_linear THEN class_cs(elem) ELSE <<>>,
          IF identity_linear THEN class_csdg(elem) ELSE <<>>,
          IF identity_linear THEN class_cz(elem) ELSE <<>>,
          class_cx01(elem), class_cx10(elem), class_cx01_cx10(elem),
          class_cx10_cx01(elem), class_swap(elem)>>

Matching(elem) == {c \in DOMAIN Cases(elem) : Cases(elem)[c] # <<>>}

\* C16: for every 2-qubit element made by cnot, phase and flip exactly one
\* of the nine cases of decompose_CNOTDihedral matches, and the circuit
\* returned is what that case emits, which is not empty.
C16_ExhaustivePartition ==
    num_qubits = 2 =>
        /\ Cardinality(Matching(Elem1)) = 1
        /\ \A c \in Matching(Elem1) :
              decompose_CNOTDihedral(Elem1).circuit = Cases(Elem1)[c]
        /\ pc = "decomposed" =>
              /\ circ # <<>>
              /\ \E c \in Matching(Elem1) : circ = Cases(Elem1)[c]

\* An element of the last case (both rows of the linear part exchanged) has
\* been decomposed.
C16_Witness ==
    /\ num_qubits = 2
    /\ pc = "decomposed"
    /\ Matching(Elem1) = {9}
    /\ Elem1.poly.weight_2[0] # 0

\* What cnot, phase and flip keep true of an element made from the identity:
\* no constant term, even quadratic coefficients and cubic coefficients that
\* are 0 or 4 (phase adds k, -2k and 4k; the substitutions of cnot and flip
\* carry a quadratic coefficient w into cubic terms as -2w).
GeneratorInvariant(elem) ==
    /\ elem.poly.weight_0 = 0
    /\ \A t \in DOMAIN elem.poly.weight_2 : elem.poly.weight_2[t] % 2 = 0
    /\ \A t \in DOMAIN elem.poly.weight_3 : elem.poly.weight_3[t] % 4 = 0

\* Every element the generators have made keeps GeneratorInvariant.
GeneratedKeepInvariant ==
    raised = "none" => GeneratorInvariant(Elem1)

\* C17: the element random_CNOTDihedral returns has an invertible linear
\* part, coefficients in 0..7 and a binary shift, and is an element the
\* generators make from the identity, so it has what they keep true.
C17_SampleIsGroupElement ==
    pc = "sampled" =>
        /\ IsBinaryMatrix(Elem1.linear)
        /\ Invertible(Elem1.linear)
        /\ Coefficients(Elem1.poly) \subseteq 0..7
        /\ IsBinaryVector(Elem1.shift)
        /\ GeneratorInvariant(Elem1)

\* The part of C17 that holds: the data constraints of a sample.
C17_SampleWellFormed ==
    pc = "sampled" =>
        /\ IsBinaryMatrix(Elem1.linear)
        /\ Invertible(Elem1.linear)
        /\ Coefficients(Elem1.poly) \subseteq 0..7
        /\ IsBinaryVector(Elem1.shift)
        /\ num_qubits <= 2 => GeneratorInvariant(Elem1)

\* The element the operations of a recorded list make of elem, from
\* operation k on: u1 is phase, x is flip and cx is cnot.
RECURSIVE Replay(_, _, _)
Replay(elem, ops, k) ==
    IF k > Len(ops) THEN elem
    ELSE LET op == ops[k]
             next == IF op[1] = "u1" THEN phase(elem, op[2], op[3]).self
                     ELSE IF op[1] = "x" THEN flip(elem, op[2]).self
                     ELSE cnot(elem, op[2], op[3]).self
         IN  Replay(next, ops, k + 1)

\* The cx operations of a recorded list.
CxOps(ops) == Cardinality({k \in DOMAIN ops : ops[k][1] = "cx"})

\* C18: whenever make_dict_0 or make_dict_next has returned, the operations
\* recorded with every entry of every layer, applied in order to the
\* identity, give an element with the entry's key, and as many of them are
\* cx as the index of the layer.
C18_RecordedSequence ==
    pc = "layers" =>
        \A m \in DOMAIN dicts : \A e \in Entries(dicts[m]) :
            /\ CNOTDihedral_key(Replay(IdentityElement, lists[e.circ], 1)) = e.key
            /\ CxOps(lists[e.circ]) = m - 1

\* make_dict_next has returned layer 1 on two qubits with an entry that
\* records a phase, a flip, the cx and a phase after it.
C18_Witness ==
    /\ pc = "layers"
    /\ num_qubits = 2
    /\ Len(dicts) = 2
    /\ \E e \in Entries(dicts[2]) :
          /\ CxOps(lists[e.circ]) = 1
          /\ Len(lists[e.circ]) >= 4
          /\ lists[e.circ][Len(lists[e.circ])][1] = "u1"

\* The slot of a valid term: the list it is stored in and its offset there.
Slot(n_vars, indices) ==
    <<Len(indices),
      IF Len(indices) = 0 THEN 0
      ELSE IF Len(indices) = 1 THEN indices[1]
      ELSE term_offset(n_vars, indices)>>

\* The length of the list the terms of a degree are stored in.
SlotCount(n_vars, degree) ==
    IF degree = 0 THEN 1
    ELSE IF degree = 1 THEN n_vars
    ELSE IF degree = 2 THEN nc2(n_vars) ELSE nc3(n_vars)

\* C19: once set_term(t, v) has been called on a polynomial, the offset of
\* every valid term lies inside the list of its degree and no two valid
\* terms share a slot; the call raised nothing, get_term(t) is v modulo 8
\* and get_term is what it was before the call at every other valid term.
C19_TermAddressing ==
    pc = "stored" =>
        /\ \A t \in ValidTerms(num_qubits) :
              /\ Slot(num_qubits, t)[2] >= 0
              /\ Slot(num_qubits, t)[2] < SlotCount(num_qubits, Len(t))
        /\ \A t \in ValidTerms(num_qubits) : \A u \in ValidTerms(num_qubits) :
              t # u => Slot(num_qubits, t) # Slot(num_qubits, u)
        /\ raised = "none"
        /\ get_term(Poly("elem1"), circ[1].qubits) = circ[1].param % 8
        /\ \A u \in ValidTerms(num_qubits) \ {circ[1].qubits} :
              get_term(Poly("elem1"), u) = get_term(Poly("elem2"), u)

\* The same for at most four variables, where it holds.
C19_TermAddressingUpTo4 == num_qubits <= 4 => C19_TermAddressing

\* The sum of the coefficients of self at the terms of a set.
RECURSIVE SumOfTerms(_, _)
SumOfTerms(self, terms) ==
    IF terms = {} THEN 0
    ELSE LET t == CHOOSE u \in terms : TRUE
         IN  get_term(self, t) + SumOfTerms(self, terms \ {t})

\* The variables of a term or monomial.
Variables(indices) == SeqToSet(indices)

\* The product of self and the monomial has degree at most 3: no term of
\* self with a coefficient other than 0 has four variables with the monomial.
ProductDegreeOk(self, indices) ==
    \A t \in ValidTerms(self.n_vars) :
        get_term(self, t) # 0 =>
            Cardinality(Variables(t) \cup Variables(indices)) <= 3

\* C20: mul_monomial with a valid monomial, on a polynomial whose product
\* with it has degree at most 3, raises nothing; the coefficient of the
\* result at every term u is the sum modulo 8 of the coefficients of self at
\* the terms that u is the union of with the monomial; self is as before.
C20_MulMonomial ==
    (pc = "multiplied"
     /\ ProductDegreeOk(Poly("elem2"), circ[1].qubits)) =>
        /\ raised = "none"
        /\ Poly("elem1") = Poly("elem2")
        /\ \A u \in ValidTerms(num_qubits) :
              get_term(Poly("value"), u)
              = SumOfTerms(Poly("elem2"),
                           {t \in ValidTerms(num_qubits) :
                               Variables(t) \cup Variables(circ[1].qubits)
                               = Variables(u)}) % 8

\* The same for at most three variables, where it holds.
C20_MulMonomialUpTo3 == num_qubits <= 3 => C20_MulMonomial

\* C21: the element that elem2.__rmul__(elem1) returns is structurally equal
\* to the one elem1.__mul__(elem2) returns: same polynomial, linear part and
\* shift, for all operands, those with a nonzero shift included.
C21_OrientationsAgree ==
    pc = "rmul" => Value = CNOTDihedral_mul(Elem1, Elem2)

\* The same when the two operands have the same shift, where it holds.
C21_OrientationsAgreeEqualShifts ==
    (pc = "rmul" /\ Elem1.shift = Elem2.shift) =>
        Value = CNOTDihedral_mul(Elem1, Elem2)

\* The operands, which cnot, phase, flip and append_circuit made from the
\* identity, have the constant term 0.
C22_GeneratedConstantTermZero ==
    /\ Elem1.poly.weight_0 = 0
    /\ Elem2.poly.weight_0 = 0

\* C22: the constant term of the phase polynomial is 0 in every element made
\* from the identity by cnot, phase and flip and in every composite of such
\* elements, so the assertion poly.weight_0 == 0 of decompose_CNOTDihedral
\* holds for it.
C22_ConstantTermZero ==
    /\ C22_GeneratedConstantTermZero
    /\ pc \in {"mul", "rmul", "mutated"} => Value.poly.weight_0 = 0

\* The same for composites whose right operand has no flipped qubit.
C22_ConstantTermZeroUnflipped ==
    (pc = "mul" /\ \A i \in DOMAIN Elem2.shift : Elem2.shift[i] = 0) =>
        Value.poly.weight_0 = 0

\* What phase(k, q) adds to the coefficient of the term u of an element: with
\* kk the power k modulo 8, or 7 * k modulo 8 where q is flipped, and S the
\* non-zero columns of row q, kk for a variable of S, -2 * kk for a pair of
\* S, 4 * kk for a triple of S and nothing for any other term.
PhaseAdds(elem, k, q, u) ==
    LET kk == IF elem.shift[q] = 1 THEN (7 * k) % 8 ELSE k % 8
        S  == {j \in DOMAIN elem.linear[q] : elem.linear[q][j] # 0}
    IN  IF u = <<>> \/ ~(Variables(u) \subseteq S) THEN 0
        ELSE IF Len(u) = 1 THEN kk
        ELSE IF Len(u) = 2 THEN -2 * kk
        ELSE 4 * kk

\* After elem1.phase(k, q), with elem2 the element before the call: every
\* coefficient is the one before plus what the rule adds, modulo 8, and
\* linear and shift are as before.
PhaseRule ==
    pc = "phase" =>
        /\ raised = "none"
        /\ Elem1.linear = Elem2.linear
        /\ Elem1.shift = Elem2.shift
        /\ \A u \in ValidTerms(num_qubits) :
              get_term(Elem1.poly, u)
              = (get_term(Elem2.poly, u)
                 + PhaseAdds(Elem2, circ[1].param, circ[1].qubits[1], u)) % 8

\* C23: phase(k, q) adds k' to the coefficient of every variable of S, -2k'
\* to that of every pair and 4k' to that of every triple of S, modulo 8,
\* where k' is k modulo 8 or, on a flipped qubit, 7k modulo 8 and S is the
\* set of non-zero columns of linear[q]; every other coefficient, the
\* constant term, linear and shift stay as they were.
C23_PhaseUpdateRule == PhaseRule

\* The same for elements of at most four qubits, where it holds.
C23_PhaseUpdateRuleUpTo4 == num_qubits <= 4 => PhaseRule

\* The number of elements of the group on 0, 1 and 2 qubits that the test of
\* the enumeration expects.
table_size == <<0, 16, 6144>>

\* The caller's loop has ended: the last layer came back empty.
Exhausted ==
    /\ pc = "layers"
    /\ Len(dicts) >= 2
    /\ dict_len(dicts[Len(dicts)]) = 0

\* key is a key of one of the layers.
InLayers(key) == \E m \in DOMAIN dicts : key_in(key, dicts[m])

\* The keys of all the layers.
AllKeys == UNION {dicts[m].keys : m \in DOMAIN dicts}

RECURSIVE TotalLen(_)
TotalLen(m) == IF m = 0 THEN 0 ELSE dict_len(dicts[m]) + TotalLen(m - 1)

\* The layers hold, with the element elem, what one cnot, one phase and one
\* flip make of it.
GeneratorsStayIn(elem) ==
    /\ \A i \in Qubits, j \in Qubits :
          i # j => InLayers(CNOTDihedral_key(cnot(elem, i, j).self))
    /\ \A q \in Qubits :
          /\ InLayers(CNOTDihedral_key(phase(elem, 1, q).self))
          /\ InLayers(CNOTDihedral_key(flip(elem, q).self))

\* The layers hold the identity and are closed under the generators.
ClosedUnderGenerators ==
    /\ InLayers(CNOTDihedral_key(IdentityElement))
    /\ \A m \in DOMAIN dicts : \A k \in DOMAIN dicts[m].entries :
          GeneratorsStayIn(EntryElem(dicts[m].entries[k]))

\* Every entry is made from the identity by the operations recorded with it.
MadeByGenerators ==
    \A m \in DOMAIN dicts : \A k \in DOMAIN dicts[m].entries :
        CNOTDihedral_key(Replay(IdentityElement,
                                lists[dicts[m].entries[k].circ], 1))
        = CNOTDihedral_key(EntryElem(dicts[m].entries[k]))

\* C24: make_dict_0 followed by make_dict_next until a layer comes back
\* empty ends: for one qubit the first next layer is empty, for two qubits a
\* layer is empty after at most MaxCalls calls; the layers then hold exactly
\* the elements that sequences of cnot, phase and flip make from the
\* identity, 16 of them for one qubit and 6144 for two.
C24_EnumerationExhausts ==
    /\ (pc = "layers" /\ num_qubits = 1 /\ Len(dicts) >= 2) =>
          dict_len(dicts[2]) = 0
    /\ (pc = "layers" /\ Len(dicts) = MaxCalls + 1) =>
          \E m \in DOMAIN dicts : dict_len(dicts[m]) = 0
    /\ Exhausted =>
          /\ TotalLen(Len(dicts)) = table_size[num_qubits + 1]
          /\ Cardinality(AllKeys) = table_size[num_qubits + 1]
          /\ ClosedUnderGenerators
          /\ MadeByGenerators

\* On one qubit the first call of make_dict_next has returned an empty layer
\* after make_dict_0 returned the 16 elements.
C24_Witness ==
    /\ Exhausted
    /\ num_qubits = 1
    /\ Len(dicts) = 2
    /\ dict_len(dicts[1]) = 16

====
